---- MODULE Spec2Model ----
(***************************************************************************)
(* Model of the smcp-imap-smtp tools: the IMAP and SMTP session objects    *)
(* (tools/imap/imap_client.py, tools/smtp/smtp_client.py), the command     *)
(* layer with its auto-connect / teardown policy (tools/imap/cli.py,       *)
(* tools/smtp/cli.py) and the e-mail normalizer (normalize_email).         *)
(*                                                                         *)
(* Python values are modelled as follows: None is the string "None", a     *)
(* list is a sequence (an absent list argument is the empty sequence, both *)
(* are falsy in the code), an object reference is an index into a heap of  *)
(* objects (0 is the None reference).  A call into the IMAP / SMTP library *)
(* is recorded in a call log; which library call fails is an input of the  *)
(* action (the oracle), chosen with \E.                                    *)
(***************************************************************************)
EXTENDS Integers, Sequences, FiniteSets, TLC

None == "None"

\* ---------------------------------------------------------------- bounds
\* number of IMAPConnection objects that can be alive at once in the heap
MaxIMAPObjs == 2
\* number of SMTPConnection objects that can be alive at once in the heap
MaxSMTPObjs == 2
\* number of attachment paths in one send_email_with_attachments call
MaxAttachments == 2

\* ------------------------------------------------------- program constants
DEFAULT_IMAP_PORT == 993
DEFAULT_SMTP_PORT == 587
MAX_ATTACHMENT_BYTES == 26214400

\* ------------------------------------------------------------- utilities
Last(s) == s[Len(s)]

Contains(s, x) == \E i \in 1..Len(s) : s[i] = x

\* index of the first occurrence of x in s (0 when absent)
IndexOf(s, x) == IF Contains(s, x) THEN CHOOSE i \in 1..Len(s) : s[i] = x /\ \A j \in 1..(i-1) : s[j] # x ELSE 0

Count(s, x) == Cardinality({i \in 1..Len(s) : s[i] = x})

\* F applied to the value x: binds a value that is used several times
With(x, F(_)) == F(x)

\* the log entry of a library call that is given a list of uids
Call(op, uids) == op \o ":" \o ToString(uids)

\* a method call that returned normally
Ok(self, calls, val) == [self |-> self, calls |-> calls, exc |-> None, msg |-> None, val |-> val]

\* a method call that raised exception class exc with message msg
Raise(self, calls, exc, msg) == [self |-> self, calls |-> calls, exc |-> exc, msg |-> msg, val |-> None]

NotConnectedIMAP == "Not connected to IMAP server"
NotConnectedSMTP == "Not connected to SMTP server"

\* =====================================================================
\* tools/imap/imap_client.py : class IMAPConnection
\* =====================================================================

\* IMAPConnection.__init__: a fresh, never-connected session
IMAPConnection == [client |-> None, server |-> None, username |-> None, current_mailbox |-> None]

\* a faulty connect that records server and username before it logs in
IMAPConnection_connect_records_first(self, server, username, password, port, use_ssl, fail) ==
  IF fail = "IMAPClient"
  THEN Raise(self, <<"IMAPClient">>, "Exception", "lib")
  ELSE LET s2 == [self EXCEPT !.client = "IMAPClient", !.server = server, !.username = username]
       IN CASE fail = "login" -> Raise(s2, <<"IMAPClient", "login">>, "Exception", "lib")
            [] fail = "login_auth_plain" -> Raise(s2, <<"IMAPClient", "login", "authenticate">>, "RuntimeError", "Authentication failed")
            [] fail = "login_auth" -> Ok(s2, <<"IMAPClient", "login", "authenticate">>, None)
            [] OTHER -> Ok(s2, <<"IMAPClient", "login">>, None)

\* IMAPConnection.connect.  fail names the library call that fails:
\*   "IMAPClient"        the constructor (socket / TLS error)
\*   "login"             login fails, not an authentication error
\*   "login_auth"        login fails with an authentication error, PLAIN works
\*   "login_auth_plain"  login fails with an authentication error, PLAIN fails
IMAPConnection_connect(self, server, username, password, port, use_ssl, fail) ==
  IF fail = "IMAPClient"
  THEN Raise(self, <<"IMAPClient">>, "Exception", "lib")
  ELSE LET s1 == [self EXCEPT !.client = "IMAPClient"]
           s2 == [s1 EXCEPT !.server = server, !.username = username]
       IN CASE fail = "login" -> Raise(s1, <<"IMAPClient", "login">>, "Exception", "lib")
            [] fail = "login_auth_plain" -> Raise(s1, <<"IMAPClient", "login", "authenticate">>, "RuntimeError", "Authentication failed")
            [] fail = "login_auth" -> Ok(s2, <<"IMAPClient", "login", "authenticate">>, None)
            [] OTHER -> Ok(s2, <<"IMAPClient", "login">>, None)

\* a faulty disconnect without the try/except around logout
IMAPConnection_disconnect_raises(self, logout_fails) ==
  IF self.client # None /\ logout_fails THEN Raise(self, <<"logout">>, "Exception", "lib")
  ELSE IF self.client # None THEN Ok(IMAPConnection, <<"logout">>, None)
  ELSE Ok(self, <<>>, None)

\* IMAPConnection.disconnect: logout_fails is swallowed by the bare except
IMAPConnection_disconnect(self, logout_fails) ==
  IF self.client # None
  THEN Ok(IMAPConnection, <<"logout">>, None)
  ELSE Ok(self, <<>>, None)

\* IMAPConnection.list_mailboxes; folders is the server's folder listing
IMAPConnection_list_mailboxes(self, folders, fail) ==
  IF self.client = None THEN Raise(self, <<>>, "RuntimeError", NotConnectedIMAP)
  ELSE IF fail = "list_folders" THEN Raise(self, <<"list_folders">>, "Exception", "lib")
  ELSE Ok(self, <<"list_folders">>, folders)

\* IMAPConnection.select_mailbox
IMAPConnection_select_mailbox(self, mailbox, fail) ==
  IF self.client = None THEN Raise(self, <<>>, "RuntimeError", NotConnectedIMAP)
  ELSE IF fail = "select_folder" THEN Raise(self, <<"select_folder:" \o mailbox>>, "Exception", "lib")
  ELSE Ok([self EXCEPT !.current_mailbox = mailbox], <<"select_folder:" \o mailbox>>, mailbox)

\* the criteria strings the model draws from, with the search the code issues
\* for each (upper-cased comparison, FROM / SUBJECT prefix, fallback to ALL)
SearchKey(criteria) ==
  CASE criteria \in {"ALL", "all"} -> "search:ALL"
    [] criteria \in {"UNSEEN"} -> "search:UNSEEN"
    [] criteria \in {"FROM a@x"} -> "search:FROM"
    [] criteria \in {"SUBJECT hi"} -> "search:SUBJECT"
    [] OTHER -> "search:ALL"

\* IMAPConnection.search
IMAPConnection_search(self, criteria, fail) ==
  IF self.client = None THEN Raise(self, <<>>, "RuntimeError", NotConnectedIMAP)
  ELSE IF fail = "search" THEN Raise(self, <<SearchKey(criteria)>>, "Exception", "lib")
  ELSE Ok(self, <<SearchKey(criteria)>>, <<1, 2>>)

\* IMAPConnection.mark_read
IMAPConnection_mark_read(self, uids, fail) ==
  IF self.client = None THEN Raise(self, <<>>, "RuntimeError", NotConnectedIMAP)
  ELSE IF fail = "set_flags" THEN Raise(self, <<Call("set_flags:SEEN", uids)>>, "Exception", "lib")
  ELSE Ok(self, <<Call("set_flags:SEEN", uids)>>, None)

\* IMAPConnection.mark_unread
IMAPConnection_mark_unread(self, uids, fail) ==
  IF self.client = None THEN Raise(self, <<>>, "RuntimeError", NotConnectedIMAP)
  ELSE IF fail = "remove_flags" THEN Raise(self, <<Call("remove_flags:SEEN", uids)>>, "Exception", "lib")
  ELSE Ok(self, <<Call("remove_flags:SEEN", uids)>>, None)

\* a faulty delete that expunges before it flags the uids
IMAPConnection_delete_expunge_first(self, uids, fail) ==
  IF self.client = None THEN Raise(self, <<>>, "RuntimeError", NotConnectedIMAP)
  ELSE IF fail = "expunge" THEN Raise(self, <<"expunge">>, "Exception", "lib")
  ELSE IF fail = "set_flags" THEN Raise(self, <<"expunge", Call("set_flags:DELETED", uids)>>, "Exception", "lib")
  ELSE Ok(self, <<"expunge", Call("set_flags:DELETED", uids)>>, None)

\* IMAPConnection.delete: flag the uids deleted, then expunge
IMAPConnection_delete(self, uids, fail) ==
  IF self.client = None THEN Raise(self, <<>>, "RuntimeError", NotConnectedIMAP)
  ELSE IF fail = "set_flags" THEN Raise(self, <<Call("set_flags:DELETED", uids)>>, "Exception", "lib")
  ELSE IF fail = "expunge" THEN Raise(self, <<Call("set_flags:DELETED", uids), "expunge">>, "Exception", "lib")
  ELSE Ok(self, <<Call("set_flags:DELETED", uids), "expunge">>, None)

\* a faulty move that flags and expunges the source before it copies
IMAPConnection_move_copy_last(self, uids, target_mailbox, fail) ==
  IF self.client = None THEN Raise(self, <<>>, "RuntimeError", NotConnectedIMAP)
  ELSE IF fail = "set_flags" THEN Raise(self, <<Call("set_flags:DELETED", uids)>>, "Exception", "lib")
  ELSE IF fail = "expunge" THEN Raise(self, <<Call("set_flags:DELETED", uids), "expunge">>, "Exception", "lib")
  ELSE IF fail = "copy" THEN Raise(self, <<Call("set_flags:DELETED", uids), "expunge", Call("copy:" \o target_mailbox, uids)>>, "Exception", "lib")
  ELSE Ok(self, <<Call("set_flags:DELETED", uids), "expunge", Call("copy:" \o target_mailbox, uids)>>, None)

\* a faulty move without the `if not self.client` guard
IMAPConnection_move_unguarded(self, uids, target_mailbox, fail) ==
  IF fail = "copy" THEN Raise(self, <<Call("copy:" \o target_mailbox, uids)>>, "Exception", "lib")
  ELSE IF fail = "set_flags" THEN Raise(self, <<Call("copy:" \o target_mailbox, uids), Call("set_flags:DELETED", uids)>>, "Exception", "lib")
  ELSE IF fail = "expunge" THEN Raise(self, <<Call("copy:" \o target_mailbox, uids), Call("set_flags:DELETED", uids), "expunge">>, "Exception", "lib")
  ELSE Ok(self, <<Call("copy:" \o target_mailbox, uids), Call("set_flags:DELETED", uids), "expunge">>, None)

\* a faulty move that flags the source deleted before it copies
IMAPConnection_move_flag_first(self, uids, target_mailbox, fail) ==
  IF self.client = None THEN Raise(self, <<>>, "RuntimeError", NotConnectedIMAP)
  ELSE IF fail = "set_flags" THEN Raise(self, <<Call("set_flags:DELETED", uids)>>, "Exception", "lib")
  ELSE IF fail = "copy" THEN Raise(self, <<Call("set_flags:DELETED", uids), Call("copy:" \o target_mailbox, uids)>>, "Exception", "lib")
  ELSE IF fail = "expunge" THEN Raise(self, <<Call("set_flags:DELETED", uids), Call("copy:" \o target_mailbox, uids), "expunge">>, "Exception", "lib")
  ELSE Ok(self, <<Call("set_flags:DELETED", uids), Call("copy:" \o target_mailbox, uids), "expunge">>, None)

\* IMAPConnection.move: copy to the target, flag the source deleted, expunge
IMAPConnection_move(self, uids, target_mailbox, fail) ==
  IF self.client = None THEN Raise(self, <<>>, "RuntimeError", NotConnectedIMAP)
  ELSE IF fail = "copy" THEN Raise(self, <<Call("copy:" \o target_mailbox, uids)>>, "Exception", "lib")
  ELSE IF fail = "set_flags" THEN Raise(self, <<Call("copy:" \o target_mailbox, uids), Call("set_flags:DELETED", uids)>>, "Exception", "lib")
  ELSE IF fail = "expunge" THEN Raise(self, <<Call("copy:" \o target_mailbox, uids), Call("set_flags:DELETED", uids), "expunge">>, "Exception", "lib")
  ELSE Ok(self, <<Call("copy:" \o target_mailbox, uids), Call("set_flags:DELETED", uids), "expunge">>, None)

\* IMAPConnection.append_to_mailbox: the library error is logged and re-raised
IMAPConnection_append_to_mailbox(self, mailbox, message_bytes, fail) ==
  IF self.client = None THEN Raise(self, <<>>, "RuntimeError", NotConnectedIMAP)
  ELSE IF fail = "append" THEN Raise(self, <<"append">>, "Exception", "lib")
  ELSE Ok(self, <<"append">>, 1)

\* the candidate names of find_sent_folder, in the order the code checks them
sent_folder_names == <<"Sent", "Sent Items", "Gesendet", "[Gmail]/Sent Mail", "Sent Messages", "OUTBOX">>

\* the folder names a server listing of the model is made of
FolderNames == {"INBOX", "Sent", "SENT", "Sent Items", "sent items", "Gesendet", "Outbox", "Sent Drafts", "Drafts", "My Sent Stuff", "Archive"}

\* str.lower() on the folder names of the model and on the candidate names
Lower(n) ==
  CASE n = "INBOX" -> "inbox"
    [] n \in {"Sent", "SENT"} -> "sent"
    [] n \in {"Sent Items", "sent items"} -> "sent items"
    [] n = "Gesendet" -> "gesendet"
    [] n = "[Gmail]/Sent Mail" -> "[gmail]/sent mail"
    [] n = "Sent Messages" -> "sent messages"
    [] n \in {"OUTBOX", "Outbox"} -> "outbox"
    [] n = "Sent Drafts" -> "sent drafts"
    [] n = "Drafts" -> "drafts"
    [] n = "My Sent Stuff" -> "my sent stuff"
    [] n = "Archive" -> "archive"
    [] OTHER -> n

\* 'sent' in folder_lower
HasSent(lower) == lower \in {"sent", "sent items", "[gmail]/sent mail", "sent messages", "sent drafts", "my sent stuff"}

\* 'draft' in folder_lower
HasDraft(lower) == lower \in {"sent drafts", "drafts"}

LowerAll(names) == [i \in 1..Len(names) |-> Lower(names[i])]

\* FindSentIn with the exact match taken in the order of the listing
FindSentIn_listing_order(folder_names) ==
  LET lowers == LowerAll(folder_names)
      exact == {j \in 1..Len(folder_names) : Contains(sent_folder_names, folder_names[j])}
      ci == {i \in 1..Len(sent_folder_names) : Contains(lowers, Lower(sent_folder_names[i]))}
      part == {j \in 1..Len(folder_names) : HasSent(lowers[j]) /\ ~HasDraft(lowers[j])}
      Min(S) == CHOOSE x \in S : \A y \in S : x <= y
  IN IF exact # {} THEN folder_names[Min(exact)]
     ELSE IF ci # {} THEN folder_names[IndexOf(lowers, Lower(sent_folder_names[Min(ci)]))]
     ELSE IF part # {} THEN folder_names[Min(part)]
     ELSE None

\* the matching of find_sent_folder on a folder listing: exact candidate,
\* then case-insensitive candidate, then 'sent' without 'draft'
FindSentIn(folder_names) ==
  LET lowers == LowerAll(folder_names)
      exact == {i \in 1..Len(sent_folder_names) : Contains(folder_names, sent_folder_names[i])}
      ci == {i \in 1..Len(sent_folder_names) : Contains(lowers, Lower(sent_folder_names[i]))}
      part == {j \in 1..Len(folder_names) : HasSent(lowers[j]) /\ ~HasDraft(lowers[j])}
      Min(S) == CHOOSE x \in S : \A y \in S : x <= y
  IN IF exact # {} THEN sent_folder_names[Min(exact)]
     ELSE IF ci # {} THEN folder_names[IndexOf(lowers, Lower(sent_folder_names[Min(ci)]))]
     ELSE IF part # {} THEN folder_names[Min(part)]
     ELSE None

\* IMAPConnection.find_sent_folder: a failing listing is logged and yields None
IMAPConnection_find_sent_folder(self, folders, fail) ==
  IF self.client = None THEN Raise(self, <<>>, "RuntimeError", NotConnectedIMAP)
  ELSE IF fail = "list_folders" THEN Ok(self, <<"list_folders">>, None)
  ELSE Ok(self, <<"list_folders">>, FindSentIn(folders))

\* =====================================================================
\* tools/imap/imap_client.py : normalize_email
\* =====================================================================
\* A parsed message is a record
\*   [from, to, cc, bcc, date, subject, multipart, content_type, payload, parts]
\* whose header fields say what the message parser hands over for the header
\* and whose parts is the sequence msg.walk() yields after the root.  Payload
\* bytes are: "a", "b" (ASCII), "L" "T" (lead and trail byte of a two-byte
\* UTF-8 character), "X" (a byte that is invalid in UTF-8).

\* a function result / a raised exception of a pure function
Val(v) == [exc |-> None, val |-> v]

Exc(e) == [exc |-> e, val |-> None]

\* email.utils.parseaddr(msg.get('From', '')): the (name, email) pair.
\* A From header with raw 8-bit bytes is handed over as a Header object, on
\* which parseaddr raises TypeError.
ParseFrom(from) ==
  CASE from = "absent" -> Val([name |-> "", email |-> ""])
    [] from = "named" -> Val([name |-> "Ann", email |-> "ann@x"])
    [] from = "bare" -> Val([name |-> "", email |-> "ann@x"])
    [] from = "garbage" -> Val([name |-> "", email |-> ""])
    [] from = "raw8bit" -> Exc("TypeError")

\* email.utils.getaddresses(msg.get_all(h, [])) and the list comprehension
\* over it: one {name, email} per address, in header order
ParseAddrs(addrs) ==
  [i \in 1..Len(addrs) |-> IF addrs[i] = "named" THEN [name |-> "Bob", email |-> "bob@x"] ELSE [name |-> "", email |-> "bob@x"]]

\* the Date header: parsedate_tz and datetime(*date_tuple[:6]) inside a bare
\* try/except: an unparsable date gives no tuple, an out-of-range field makes
\* datetime raise ValueError, which is swallowed
ParseDate(date) ==
  CASE date = "valid" -> "2020-03-02T10:00:00Z"
    [] date = "valid_offset" -> "2020-03-02T10:00:00Z"
    [] OTHER -> None

\* decode_header(h) followed by ''.join(part.decode(charset or 'utf-8',
\* errors='ignore') ...): used for the subject and for attachment filenames.
\* An unknown charset (also the parser's 'unknown-8bit' for raw 8-bit bytes)
\* makes bytes.decode raise LookupError; malformed base64 makes decode_header
\* raise HeaderParseError.
DecodeHeaderJoin(h) ==
  CASE h = "plain" -> Val("text")
    [] h = "encoded" -> Val("decoded")
    [] h = "encoded_badbytes" -> Val("decod")
    [] h = "unknown_charset" -> Exc("LookupError")
    [] h = "raw8bit" -> Exc("LookupError")
    [] h = "bad_base64" -> Exc("HeaderParseError")
    [] OTHER -> Val("")

\* bytes.decode('utf-8', errors='ignore'): invalid bytes are dropped, a lead
\* byte followed by a trail byte is one character ("E")
RECURSIVE DecodeUtf8Ignore(_)
DecodeUtf8Ignore(bytes) ==
  IF bytes = <<>> THEN <<>>
  ELSE IF Head(bytes) \in {"a", "b"} THEN <<Head(bytes)>> \o DecodeUtf8Ignore(Tail(bytes))
  ELSE IF Head(bytes) = "L" /\ Len(bytes) >= 2 /\ bytes[2] = "T" THEN <<"E">> \o DecodeUtf8Ignore(Tail(Tail(bytes)))
  ELSE DecodeUtf8Ignore(Tail(bytes))

\* s[:n] for n >= 0
Prefix(s, n) == IF Len(s) > n THEN SubSeq(s, 1, n) ELSE s

\* TruncateBody without the cut
TruncateBody_keeps_whole(text, max_body_bytes) == text

\* if len(text) > max_body_bytes: text[:max_body_bytes] else text
TruncateBody(text, max_body_bytes) == IF Len(text) > max_body_bytes THEN Prefix(text, max_body_bytes) ELSE text

\* NormalizePart with the first text/plain part kept: a later one does not
\* overwrite it
NormalizePart_first_plain_wins(acc, part, max_body_bytes, max_attachment_bytes) ==
  IF part.content_type \in {"multipart/mixed", "multipart/alternative"} THEN acc
  ELSE IF part.disposition = "attachment" \/ part.filename # None
  THEN IF part.filename = None THEN acc
       ELSE LET fn == DecodeHeaderJoin(part.filename)
                size == Len(part.payload)
                entry == [filename |-> fn.val, content_type |-> part.content_type,
                          size |-> IF size > max_attachment_bytes THEN max_attachment_bytes ELSE size,
                          truncated |-> size > max_attachment_bytes]
            IN IF fn.exc # None THEN [acc EXCEPT !.exc = fn.exc]
               ELSE IF part.payload = <<>> THEN acc
               ELSE [acc EXCEPT !.attachments = Append(acc.attachments, entry)]
  ELSE IF part.payload = <<>> THEN acc
  ELSE LET text == DecodeUtf8Ignore(part.payload)
       IN CASE part.content_type = "text/plain" /\ acc.body_text # <<>> -> acc
            [] part.content_type = "text/plain" -> [acc EXCEPT !.body_text = TruncateBody(text, max_body_bytes)]
            [] part.content_type = "text/html" -> [acc EXCEPT !.body_html = TruncateBody(text, max_body_bytes)]
            [] OTHER -> acc

\* NormalizePart with an attachment of exactly max_attachment_bytes bytes
\* marked truncated
NormalizePart_truncated_at_limit(acc, part, max_body_bytes, max_attachment_bytes) ==
  IF part.content_type \in {"multipart/mixed", "multipart/alternative"} THEN acc
  ELSE IF part.disposition = "attachment" \/ part.filename # None
  THEN IF part.filename = None THEN acc
       ELSE LET fn == DecodeHeaderJoin(part.filename)
                size == Len(part.payload)
                entry == [filename |-> fn.val, content_type |-> part.content_type,
                          size |-> IF size > max_attachment_bytes THEN max_attachment_bytes ELSE size,
                          truncated |-> size >= max_attachment_bytes]
            IN IF fn.exc # None THEN [acc EXCEPT !.exc = fn.exc]
               ELSE IF part.payload = <<>> THEN acc
               ELSE [acc EXCEPT !.attachments = Append(acc.attachments, entry)]
  ELSE IF part.payload = <<>> THEN acc
  ELSE LET text == DecodeUtf8Ignore(part.payload)
       IN CASE part.content_type = "text/plain" -> [acc EXCEPT !.body_text = TruncateBody(text, max_body_bytes)]
            [] part.content_type = "text/html" -> [acc EXCEPT !.body_html = TruncateBody(text, max_body_bytes)]
            [] OTHER -> acc

\* the body of the loop over msg.walk() for one part; acc is
\* [exc, body_text, body_html, attachments]
NormalizePart(acc, part, max_body_bytes, max_attachment_bytes) ==
  IF part.content_type \in {"multipart/mixed", "multipart/alternative"} THEN acc
  ELSE IF part.disposition = "attachment" \/ part.filename # None
  THEN IF part.filename = None THEN acc
       ELSE LET fn == DecodeHeaderJoin(part.filename)
                size == Len(part.payload)
                entry == [filename |-> fn.val, content_type |-> part.content_type,
                          size |-> IF size > max_attachment_bytes THEN max_attachment_bytes ELSE size,
                          truncated |-> size > max_attachment_bytes]
            IN IF fn.exc # None THEN [acc EXCEPT !.exc = fn.exc]
               ELSE IF part.payload = <<>> THEN acc
               ELSE [acc EXCEPT !.attachments = Append(acc.attachments, entry)]
  ELSE IF part.payload = <<>> THEN acc
  ELSE LET text == DecodeUtf8Ignore(part.payload)
       IN CASE part.content_type = "text/plain" -> [acc EXCEPT !.body_text = TruncateBody(text, max_body_bytes)]
            [] part.content_type = "text/html" -> [acc EXCEPT !.body_html = TruncateBody(text, max_body_bytes)]
            [] OTHER -> acc

\* the loop over msg.walk(): an exception raised in a part ends the loop
RECURSIVE NormalizeParts(_, _, _, _)
NormalizeParts(acc, parts, max_body_bytes, max_attachment_bytes) ==
  IF parts = <<>> \/ acc.exc # None THEN acc
  ELSE NormalizeParts(NormalizePart(acc, Head(parts), max_body_bytes, max_attachment_bytes), Tail(parts), max_body_bytes, max_attachment_bytes)

\* the single-part branch
NormalizeSingle(acc, msg, max_body_bytes) ==
  IF msg.payload = <<>> THEN acc
  ELSE LET text == DecodeUtf8Ignore(msg.payload)
       IN IF msg.content_type = "text/html"
          THEN [acc EXCEPT !.body_html = TruncateBody(text, max_body_bytes)]
          ELSE [acc EXCEPT !.body_text = TruncateBody(text, max_body_bytes)]

\* normalize_email(msg, uid, max_body_bytes, max_attachment_bytes): the
\* normalized record, or the exception that escapes the function
normalize_email(msg, uid, max_body_bytes, max_attachment_bytes) ==
  LET from_obj == ParseFrom(msg.from)
      subject == IF msg.subject = "absent" THEN Val("") ELSE DecodeHeaderJoin(msg.subject)
      acc0 == [exc |-> None, body_text |-> <<>>, body_html |-> <<>>, attachments |-> <<>>]
      acc == IF msg.multipart
             THEN NormalizeParts(acc0, msg.parts, max_body_bytes, max_attachment_bytes)
             ELSE NormalizeSingle(acc0, msg, max_body_bytes)
      ts == ParseDate(msg.date)
  IN IF from_obj.exc # None THEN Exc(from_obj.exc)
     ELSE IF subject.exc # None THEN Exc(subject.exc)
     ELSE IF acc.exc # None THEN Exc(acc.exc)
     ELSE Val([id |-> uid, mailbox |-> None, from |-> from_obj.val,
               to |-> ParseAddrs(msg.to), cc |-> ParseAddrs(msg.cc), bcc |-> ParseAddrs(msg.bcc),
               subject |-> subject.val, timestamp |-> IF ts = None THEN "" ELSE ts,
               body |-> [text |-> acc.body_text, html |-> acc.body_html, attachments |-> acc.attachments],
               flags |-> <<>>])

\* the messages of the server's mailbox in the command-layer model, by uid:
\* uid 1 is a plain message, uid 2 has a subject in an unknown charset
PlainMsg == [from |-> "named", to |-> <<"bare">>, cc |-> <<>>, bcc |-> <<>>, date |-> "valid", subject |-> "plain", multipart |-> FALSE, content_type |-> "text/plain", payload |-> <<"a", "b">>, parts |-> <<>>]

ServerMessages == (1 :> PlainMsg) @@ (2 :> [PlainMsg EXCEPT !.subject = "unknown_charset"])

\* fetch_email without the `uid not in messages` check: messages[uid] raises
IMAPConnection_fetch_email_unchecked(self, uid, max_body_bytes, max_attachment_bytes, fail) ==
  IF self.client = None THEN Raise(self, <<>>, "RuntimeError", NotConnectedIMAP)
  ELSE IF fail = "fetch" THEN Raise(self, <<"fetch">>, "Exception", "lib")
  ELSE IF uid \notin DOMAIN ServerMessages THEN Raise(self, <<"fetch">>, "KeyError", "lib")
  ELSE With(normalize_email(ServerMessages[uid], uid, max_body_bytes, max_attachment_bytes), LAMBDA n :
         IF n.exc # None THEN Raise(self, <<"fetch">>, n.exc, "normalize")
         ELSE Ok(self, <<"fetch">>, n.val))

\* IMAPConnection.fetch_email: fetch, ValueError when the uid is not in the
\* response, else parse and normalize
IMAPConnection_fetch_email(self, uid, max_body_bytes, max_attachment_bytes, fail) ==
  IF self.client = None THEN Raise(self, <<>>, "RuntimeError", NotConnectedIMAP)
  ELSE IF fail = "fetch" THEN Raise(self, <<"fetch">>, "Exception", "lib")
  ELSE IF uid \notin DOMAIN ServerMessages THEN Raise(self, <<"fetch">>, "ValueError", "not found")
  ELSE With(normalize_email(ServerMessages[uid], uid, max_body_bytes, max_attachment_bytes), LAMBDA n :
         IF n.exc # None THEN Raise(self, <<"fetch">>, n.exc, "normalize")
         ELSE Ok(self, <<"fetch">>, n.val))

\* =====================================================================
\* tools/config.py : the persisted profile document, as the clients read it
\* =====================================================================
\* The document is [profiles, default_profile]; profiles is the sequence of
\* profile records in the order of the JSON object (names are unique).

WorkProfile == [name |-> "work", imap_server |-> "imap.work.com", smtp_server |-> "smtp.work.com", username |-> "me@work.com", password |-> "pw.work", imap_port |-> 993, smtp_port |-> 587, imap_ssl |-> TRUE, smtp_tls |-> TRUE]

HomeProfile == [name |-> "home", imap_server |-> "imap.home.org", smtp_server |-> "smtp.home.org", username |-> "me@home.org", password |-> "pw.home", imap_port |-> 143, smtp_port |-> 25, imap_ssl |-> FALSE, smtp_tls |-> FALSE]

EmptyDoc == [profiles |-> <<>>, default_profile |-> None]

\* ProfileManager.get_profile(name): <<profile>>, or <<>> for None
get_profile(doc, name) == SelectSeq(doc.profiles, LAMBDA p : p.name = name)

\* ProfileManager.get_default(): <<profile>>, or <<>> for None
get_default(doc) == IF doc.default_profile # None THEN get_profile(doc, doc.default_profile) ELSE <<>>

\* ---------------------------------------------------------------------
\* tools/config.py : class AccountProfile and class ProfileManager
\* ---------------------------------------------------------------------
\* A JSON object is a record whose domain holds the keys that are present.

\* to_dict that masks the password, as the profile listing does
AccountProfile_to_dict_masked(self) ==
  [name |-> self.name, imap_server |-> self.imap_server, smtp_server |-> self.smtp_server, username |-> self.username, password |-> "***", imap_port |-> self.imap_port, smtp_port |-> self.smtp_port, imap_ssl |-> self.imap_ssl, smtp_tls |-> self.smtp_tls]

\* AccountProfile.to_dict
AccountProfile_to_dict(self) ==
  [name |-> self.name, imap_server |-> self.imap_server, smtp_server |-> self.smtp_server, username |-> self.username, password |-> self.password, imap_port |-> self.imap_port, smtp_port |-> self.smtp_port, imap_ssl |-> self.imap_ssl, smtp_tls |-> self.smtp_tls]

\* dict.get(key, default)
Get(data, key, default) == IF key \in DOMAIN data THEN data[key] ELSE default

\* AccountProfile.from_dict
AccountProfile_from_dict(data) ==
  [name |-> data.name, imap_server |-> Get(data, "imap_server", None), smtp_server |-> Get(data, "smtp_server", None), username |-> Get(data, "username", None), password |-> Get(data, "password", None), imap_port |-> Get(data, "imap_port", 993), smtp_port |-> Get(data, "smtp_port", 587), imap_ssl |-> Get(data, "imap_ssl", TRUE), smtp_tls |-> Get(data, "smtp_tls", TRUE)]

\* a ProfileManager: its profiles in the order of the dict, its default
\* pointer; NoManager is a manager that was not constructed
NoManager == [constructed |-> FALSE, profiles |-> <<>>, default_profile |-> None]

\* the managers of the one file
Managers == {1, 2}

NoManagers == [i \in Managers |-> NoManager]

\* ---------------------------------------------------------------------
\* the IMAP server: what copy, set_flags(DELETED) and expunge do to the
\* messages of the account
\* ---------------------------------------------------------------------
\* A mailbox is [msgs, deleted, copies]: the uids of the messages the client
\* addresses, those of them that carry the \Deleted flag, and the messages
\* that arrived by copy, each named by the mailbox and uid it was copied
\* from (a copy has a new uid and arrives without the \Deleted flag).
Uids == {<<>>, <<1>>, <<2, 1>>}

StoreMailboxes == {"INBOX", "Archive", "Trash"}

EmptyStore == [m \in StoreMailboxes |-> [msgs |-> {}, deleted |-> {}, copies |-> {}]]

SetOf(uids) == {uids[k] : k \in 1..Len(uids)}

\* one library call, issued with `mailbox` selected
ServerCall(st, mailbox, call) ==
  With({x \in Uids \X StoreMailboxes : call = Call("copy:" \o x[2], x[1])}, LAMBDA copy :
  With({uids \in Uids : call = Call("set_flags:DELETED", uids)}, LAMBDA flag :
    IF mailbox \notin StoreMailboxes THEN st
    ELSE IF copy # {} THEN With(CHOOSE x \in copy : TRUE, LAMBDA x :
           [st EXCEPT ![x[2]].copies = @ \cup {<<mailbox, uid>> : uid \in SetOf(x[1]) \cap st[mailbox].msgs}])
    ELSE IF flag # {} THEN [st EXCEPT ![mailbox].deleted = @ \cup (SetOf(CHOOSE uids \in flag : TRUE) \cap st[mailbox].msgs)]
    ELSE IF call = "expunge" THEN [st EXCEPT ![mailbox].msgs = @ \ st[mailbox].deleted, ![mailbox].deleted = {}]
    ELSE st))

\* the calls of a method in their order
RECURSIVE ServerApply(_, _, _)
ServerApply(st, mailbox, calls) ==
  IF calls = <<>> THEN st ELSE ServerApply(ServerCall(st, mailbox, Head(calls)), mailbox, Tail(calls))

\* the calls of a method that took effect: the call that raised did not
Applied(r) == IF r.exc # None /\ r.calls # <<>> THEN SubSeq(r.calls, 1, Len(r.calls) - 1) ELSE r.calls

\* the commands of the process when they run in threads: where each one is,
\* the session it works on and whether it opened that session itself
Threads == {1, 2}

Idle == [pc |-> "idle", conn |-> 0, auto |-> FALSE, result |-> None]

NoProcs == [t \in Threads |-> Idle]

\* ProfileManager.__init__ and _load: a document that cannot be read as
\* profiles (here: an entry without a name) leaves the manager empty
ProfileManager(file) ==
  IF \E i \in 1..Len(file.profiles) : "name" \notin DOMAIN file.profiles[i]
  THEN [constructed |-> TRUE, profiles |-> <<>>, default_profile |-> None]
  ELSE [constructed |-> TRUE, profiles |-> [i \in 1..Len(file.profiles) |-> AccountProfile_from_dict(file.profiles[i])], default_profile |-> file.default_profile]

\* what a mutating method gave: the manager, the document, the calls, the outcome
Saved(self, file, r) == [self |-> self, file |-> file, calls |-> r.calls, exc |-> r.exc, msg |-> r.msg, val |-> r.val]

\* _save that updates the document it finds: the profiles of the document
\* that the view does not hold are kept
ProfileManager_save_merging(self, file, val, fail) ==
  IF fail = "save" THEN Saved(self, file, Raise(self, <<"mkdir", "open">>, "Exception", "lib"))
  ELSE Saved(self, [profiles |-> [i \in 1..Len(self.profiles) |-> AccountProfile_to_dict(self.profiles[i])] \o SelectSeq(file.profiles, LAMBDA p : "name" \in DOMAIN p /\ get_profile(self, p.name) = <<>>), default_profile |-> self.default_profile], Ok(self, <<"mkdir", "open", "dump">>, val))

\* ProfileManager._save: the whole view is written; a write error is raised
ProfileManager_save(self, file, val, fail) ==
  IF fail = "save" THEN Saved(self, file, Raise(self, <<"mkdir", "open">>, "Exception", "lib"))
  ELSE Saved(self, [profiles |-> [i \in 1..Len(self.profiles) |-> AccountProfile_to_dict(self.profiles[i])], default_profile |-> self.default_profile], Ok(self, <<"mkdir", "open", "dump">>, val))

\* self.profiles[name] = profile
SetItem(profiles, profile) ==
  IF \E i \in 1..Len(profiles) : profiles[i].name = profile.name
  THEN [i \in 1..Len(profiles) |-> IF profiles[i].name = profile.name THEN profile ELSE profiles[i]]
  ELSE Append(profiles, profile)

\* ProfileManager.add_profile
ProfileManager_add_profile(self, file, profile, fail) ==
  ProfileManager_save([self EXCEPT !.profiles = SetItem(@, profile)], file, None, fail)

\* remove_profile that leaves the default pointer on the removed profile
ProfileManager_remove_profile_keeps_default(self, file, name, fail) ==
  IF get_profile(self, name) # <<>>
  THEN ProfileManager_save([self EXCEPT !.profiles = SelectSeq(@, LAMBDA p : p.name # name)], file, TRUE, fail)
  ELSE Saved(self, file, Ok(self, <<>>, FALSE))

\* ProfileManager.remove_profile
ProfileManager_remove_profile(self, file, name, fail) ==
  IF get_profile(self, name) # <<>>
  THEN ProfileManager_save([self EXCEPT !.profiles = SelectSeq(@, LAMBDA p : p.name # name), !.default_profile = IF @ = name THEN None ELSE @], file, TRUE, fail)
  ELSE Saved(self, file, Ok(self, <<>>, FALSE))

\* set_default without the `name in self.profiles` test
ProfileManager_set_default_unchecked(self, file, name, fail) ==
  ProfileManager_save([self EXCEPT !.default_profile = name], file, TRUE, fail)

\* ProfileManager.set_default
ProfileManager_set_default(self, file, name, fail) ==
  IF get_profile(self, name) # <<>>
  THEN ProfileManager_save([self EXCEPT !.default_profile = name], file, TRUE, fail)
  ELSE Saved(self, file, Ok(self, <<>>, FALSE))

\* =====================================================================
\* tools/smtp/smtp_client.py : class SMTPConnection
\* =====================================================================

\* SMTPConnection.__init__ (an unset port is 0, the optional imap_ssl flag
\* is <<>> when unset and <<flag>> when set)
SMTPConnection == [server |-> None, host |-> None, port |-> 0, username |-> None, password |-> None, use_tls |-> TRUE, imap_server |-> None, imap_port |-> 0, imap_ssl |-> <<>>]

\* SMTPConnection.connect; fail is "SMTP" (constructor), "starttls" or "login"
SMTPConnection_connect(self, host, username, password, port, use_tls, fail) ==
  LET s1 == [self EXCEPT !.server = "SMTP"]
      s2 == [s1 EXCEPT !.host = host, !.port = port, !.username = username, !.password = password, !.use_tls = use_tls]
      tls == IF use_tls THEN <<"starttls">> ELSE <<>>
  IN IF fail = "SMTP" THEN Raise(self, <<"SMTP">>, "Exception", "lib")
     ELSE IF use_tls /\ fail = "starttls" THEN Raise(s1, <<"SMTP", "starttls">>, "Exception", "lib")
     ELSE IF fail = "login" THEN Raise(s1, <<"SMTP">> \o tls \o <<"smtp_login">>, "Exception", "lib")
     ELSE Ok(s2, <<"SMTP">> \o tls \o <<"smtp_login">>, None)

\* a faulty disconnect without the inner try/except around close
SMTPConnection_disconnect_close_raises(self, quit_fails, close_fails) ==
  IF self.server # None /\ quit_fails /\ close_fails THEN Raise(self, <<"quit", "close">>, "Exception", "lib")
  ELSE IF self.server # None
  THEN Ok([self EXCEPT !.server = None, !.host = None, !.port = 0, !.username = None, !.password = None],
          IF quit_fails THEN <<"quit", "close">> ELSE <<"quit">>, None)
  ELSE Ok(self, <<>>, None)

\* SMTPConnection.disconnect: quit, close when quit fails, every error
\* swallowed (close_fails matters only when quit fails)
SMTPConnection_disconnect(self, quit_fails, close_fails) ==
  IF self.server # None
  THEN Ok([self EXCEPT !.server = None, !.host = None, !.port = 0, !.username = None, !.password = None],
          IF quit_fails THEN <<"quit", "close">> ELSE <<"quit">>, None)
  ELSE Ok(self, <<>>, None)

\* the SMTP host names of the model, lower-cased
LowerHost(host) ==
  CASE host = "SMTP.Work.com" -> "smtp.work.com"
    [] OTHER -> host

\* priority 3 of the sent-folder echo: the IMAP host derived from the
\* lower-cased SMTP host ('mail.' and 'smtp.' prefixes, a first label that
\* contains 'mail', else the same host); None when nothing is assigned
DeriveImapServer(host) ==
  LET h == LowerHost(host)
  IN CASE h = "mail.work.com" -> "imap.work.com"
       [] h = "smtp.work.com" -> "imap.work.com"
       [] h = "smtp.home.org" -> "imap.home.org"
       [] h = "webmail.work.com" -> "imap.work.com"
       [] h = "mailhost" -> None
       [] OTHER -> h

\* the IMAP settings a profile gives the echo
ProfileSettings(p) == [imap_server |-> p.imap_server, imap_port |-> p.imap_port, imap_ssl |-> p.imap_ssl, password |-> p.password]

\* faulty settings that look at the profiles before the session's own
\* IMAP server
EchoSettings_profile_first(self, doc, config_ok) ==
  LET own == [imap_server |-> self.imap_server,
              imap_port |-> IF self.imap_port # 0 THEN self.imap_port ELSE DEFAULT_IMAP_PORT,
              imap_ssl |-> IF self.imap_ssl # <<>> THEN Head(self.imap_ssl) ELSE TRUE,
              password |-> self.password]
      matches == SelectSeq(doc.profiles, LAMBDA p : p.username = self.username)
      byName == IF matches # <<>> THEN ProfileSettings(Head(matches)) ELSE own
      dflt == SelectSeq(get_default(doc), LAMBDA p : p.username = self.username)
  IN IF ~config_ok THEN own
     ELSE IF byName.imap_server = None /\ dflt # <<>> THEN ProfileSettings(Head(dflt))
     ELSE byName

\* priorities 1 and 2 of the sent-folder echo: the settings of the session
\* (port 993 and SSL by default; port 0 stands for an unset port); when the
\* session names no IMAP server, those of the first profile whose username
\* is the session's; when that still names no server, those of the default
\* profile if its username is the session's
EchoSettings(self, doc, config_ok) ==
  LET own == [imap_server |-> self.imap_server,
              imap_port |-> IF self.imap_port # 0 THEN self.imap_port ELSE DEFAULT_IMAP_PORT,
              imap_ssl |-> IF self.imap_ssl # <<>> THEN Head(self.imap_ssl) ELSE TRUE,
              password |-> self.password]
      matches == SelectSeq(doc.profiles, LAMBDA p : p.username = self.username)
      byName == IF matches # <<>> THEN ProfileSettings(Head(matches)) ELSE own
      dflt == SelectSeq(get_default(doc), LAMBDA p : p.username = self.username)
  IN IF self.imap_server # None \/ ~config_ok THEN own
     ELSE IF byName.imap_server = None /\ dflt # <<>> THEN ProfileSettings(Head(dflt))
     ELSE byName

\* the call log of the echo's own IMAP session; its first call names the
\* server the session is opened to
EchoCalls(calls) == [i \in 1..Len(calls) |-> "echo:" \o calls[i]]

\* the oracle eo of the sent-folder echo:
\*   eo.imap_import  "ok", "raises" (the last-resort import raises) or "none"
\*                   (no import path works and IMAPConnection stays None, so
\*                   that calling it raises TypeError)
\*   eo.config_ok    whether ProfileManager can be imported and loaded
\*   eo.fail         the IMAP library call that fails ("none" for no failure)
\*   eo.folders      the folder listing of the IMAP account

\* the body of the inner try block of _save_to_sent_folder: the IMAP session
\* of the echo, with the exception it raises
EchoSession(self, imap_server, password, imap_port, imap_ssl, message_bytes, eo) ==
  IF eo.imap_import = "none" THEN Raise(self, <<>>, "TypeError", "not callable")
  ELSE With(IMAPConnection_connect(IMAPConnection, imap_server, self.username, password, imap_port, imap_ssl, eo.fail), LAMBDA c0 :
       With([c0 EXCEPT !.calls = <<"IMAPClient:" \o imap_server>> \o Tail(@)], LAMBDA c :
       With(IMAPConnection_find_sent_folder(c.self, eo.folders, eo.fail), LAMBDA f :
       With(IMAPConnection_append_to_mailbox(c.self, f.val, message_bytes, eo.fail), LAMBDA a :
       With(IMAPConnection_disconnect(c.self, eo.fail = "logout"), LAMBDA d :
         IF c.exc # None THEN Raise(self, EchoCalls(c.calls), c.exc, c.msg)
         ELSE IF f.val = None THEN Ok(self, EchoCalls(c.calls \o f.calls \o d.calls), None)
         ELSE IF a.exc # None THEN Raise(self, EchoCalls(c.calls \o f.calls \o a.calls), a.exc, a.msg)
         ELSE Ok(self, EchoCalls(c.calls \o f.calls \o a.calls \o d.calls), None))))))

\* the body of the outer try block of _save_to_sent_folder: the early
\* returns, the resolution of the IMAP settings and the inner try block,
\* whose `except Exception` clause logs what the session raised
EchoBody(self, message_bytes, doc, eo) ==
  With(EchoSettings(self, doc, eo.config_ok), LAMBDA st :
  With(IF st.imap_server = None /\ self.host # None THEN DeriveImapServer(self.host) ELSE st.imap_server, LAMBDA imap_server :
    IF eo.imap_import = "raises" THEN Ok(self, <<>>, None)
    ELSE IF self.username = None \/ self.password = None THEN Ok(self, <<>>, None)
    ELSE IF imap_server = None THEN Ok(self, <<>>, None)
    ELSE Ok(self, EchoSession(self, imap_server, st.password, st.imap_port, st.imap_ssl, message_bytes, eo).calls, None)))

\* _save_to_sent_folder without its except clauses: what the session raises
\* reaches the caller
save_to_sent_folder_unguarded(self, message_bytes, doc, eo) ==
  With(EchoSettings(self, doc, eo.config_ok), LAMBDA st :
  With(IF st.imap_server = None /\ self.host # None THEN DeriveImapServer(self.host) ELSE st.imap_server, LAMBDA imap_server :
    IF eo.imap_import = "raises" \/ self.username = None \/ self.password = None \/ imap_server = None
    THEN Ok(self, <<>>, None)
    ELSE EchoSession(self, imap_server, st.password, st.imap_port, st.imap_ssl, message_bytes, eo)))

\* SMTPConnection._save_to_sent_folder: the outer `except Exception` logs
\* whatever the body raises; the method returns None
save_to_sent_folder(self, message_bytes, doc, eo) ==
  Ok(self, EchoBody(self, message_bytes, doc, eo).calls, None)

\* the message send_email builds: headers and body parts; bcc is no header
BuildMessage(from_addr, to_addrs, subject, body, cc, reply_to, html, text_body) ==
  [From |-> from_addr, To |-> to_addrs, Cc |-> cc, ReplyTo |-> reply_to, Subject |-> subject,
   content_type |-> IF html THEN "multipart/alternative" ELSE "text/plain",
   parts |-> IF html THEN (IF text_body # None THEN <<"text/plain">> ELSE <<>>) \o <<"text/html">> ELSE <<"text/plain">>]

\* a faulty send_email that lists the bcc addresses in the Cc header
SMTPConnection_send_email_bcc_header(self, to_addrs, subject, body, from_addr, cc, bcc, reply_to, html, text_body, fail, doc, eo) ==
  LET from == IF from_addr = None THEN self.username ELSE from_addr
      msg == BuildMessage(from, to_addrs, subject, body, cc \o bcc, reply_to, html, text_body)
      recipients == to_addrs \o cc \o bcc
  IN IF self.server = None THEN Raise(self, <<>>, "RuntimeError", NotConnectedSMTP)
     ELSE IF fail = "sendmail" THEN Raise(self, <<"sendmail">>, "Exception", "lib")
     ELSE With(save_to_sent_folder(self, msg, doc, eo), LAMBDA echo :
            IF echo.exc # None THEN Raise(self, <<"sendmail">> \o echo.calls, echo.exc, echo.msg)
            ELSE Ok(self, <<"sendmail">> \o echo.calls,
                    [sent |-> TRUE, from |-> from, to |-> to_addrs, cc |-> cc, bcc |-> bcc, subject |-> subject,
                     message |-> msg, recipients |-> recipients]))

\* SMTPConnection.send_email; fail = "sendmail" makes the transmit fail
SMTPConnection_send_email(self, to_addrs, subject, body, from_addr, cc, bcc, reply_to, html, text_body, fail, doc, eo) ==
  LET from == IF from_addr = None THEN self.username ELSE from_addr
      msg == BuildMessage(from, to_addrs, subject, body, cc, reply_to, html, text_body)
      recipients == to_addrs \o cc \o bcc
  IN IF self.server = None THEN Raise(self, <<>>, "RuntimeError", NotConnectedSMTP)
     ELSE IF fail = "sendmail" THEN Raise(self, <<"sendmail">>, "Exception", "lib")
     ELSE With(save_to_sent_folder(self, msg, doc, eo), LAMBDA echo :
            IF echo.exc # None THEN Raise(self, <<"sendmail">> \o echo.calls, echo.exc, echo.msg)
            ELSE Ok(self, <<"sendmail">> \o echo.calls,
                    [sent |-> TRUE, from |-> from, to |-> to_addrs, cc |-> cc, bcc |-> bcc, subject |-> subject,
                     message |-> msg, recipients |-> recipients]))

\* an attachment path of the model is a record [exists, size, readable]:
\* what os.path.exists, os.path.getsize and open() give for the path
AttachmentError(att) ==
  IF ~att.exists THEN "FileNotFoundError"
  ELSE IF att.size > MAX_ATTACHMENT_BYTES THEN "ValueError"
  ELSE None

\* a faulty validation that looks at the first attachment only
ValidateAttachments_first(attachments) ==
  IF attachments = <<>> THEN None ELSE AttachmentError(Head(attachments))

\* the validation loop of send_email_with_attachments: the exception of the
\* first attachment that is missing or too large, None when all pass
RECURSIVE ValidateAttachments(_)
ValidateAttachments(attachments) ==
  IF attachments = <<>> THEN None
  ELSE IF AttachmentError(Head(attachments)) # None THEN AttachmentError(Head(attachments))
  ELSE ValidateAttachments(Tail(attachments))

\* SMTPConnection.send_email_with_attachments
SMTPConnection_send_email_with_attachments(self, to_addrs, subject, body, attachments, from_addr, cc, bcc, reply_to, html, fail, doc, eo) ==
  LET unreadable == \E i \in 1..Len(attachments) : ~attachments[i].readable
      from == IF from_addr = None THEN self.username ELSE from_addr
      msg == [From |-> from, To |-> to_addrs, Cc |-> cc, ReplyTo |-> reply_to, Subject |-> subject,
              content_type |-> "multipart/mixed",
              parts |-> <<IF html THEN "text/html" ELSE "text/plain">> \o [i \in 1..Len(attachments) |-> "application/octet-stream"]]
      recipients == to_addrs \o cc \o bcc
  IN IF self.server = None THEN Raise(self, <<>>, "RuntimeError", NotConnectedSMTP)
     ELSE With(ValidateAttachments(attachments), LAMBDA invalid :
       IF invalid # None THEN Raise(self, <<>>, invalid, "attachment")
       ELSE IF unreadable THEN Raise(self, <<>>, "Exception", "open")
       ELSE IF fail = "sendmail" THEN Raise(self, <<"sendmail">>, "Exception", "lib")
       ELSE With(save_to_sent_folder(self, msg, doc, eo), LAMBDA echo :
              IF echo.exc # None THEN Raise(self, <<"sendmail">> \o echo.calls, echo.exc, echo.msg)
              ELSE Ok(self, <<"sendmail">> \o echo.calls,
                      [sent |-> TRUE, from |-> from, to |-> to_addrs, cc |-> cc, bcc |-> bcc, subject |-> subject,
                       attachments |-> [i \in 1..Len(attachments) |-> attachments[i].size],
                       message |-> msg, recipients |-> recipients])))

\* =====================================================================
\* tools/imap/cli.py : the IMAP command layer
\* =====================================================================
\* The process state of a protocol is w = [slot, objs]: the module-level
\* _connection (a reference, 0 for None) and the heap of session objects.

\* a reference to a newly constructed object: one the slot does not hold
NewObj(slot, n) == CHOOSE i \in 1..n : i # slot /\ \A j \in 1..n : j # slot => i <= j

\* the value a command function returns, or the exception it lets escape:
\* status / result / error are the keys of the returned dict (None = absent),
\* mailbox is the "mailbox" key of the result (None = absent); args_mailbox
\* is the `mailbox` argument the command was called with
Returned(cmd, status, result, error, auto) ==
  [cmd |-> cmd, status |-> status, result |-> result, error |-> error, raised |-> None, auto_connected |-> auto,
   mailbox |-> None, args_mailbox |-> None]

Escaped(cmd, exc, auto) ==
  [cmd |-> cmd, status |-> None, result |-> None, error |-> None, raised |-> exc, auto_connected |-> auto,
   mailbox |-> None, args_mailbox |-> None]

\* the outcome of a command: the process state it leaves, the library calls
\* it issued and what it returned
Done(w, calls, ret) == [w |-> w, calls |-> calls, ret |-> ret]

\* int(v) on an argument value: a numeric string converts, another string
\* raises ValueError, a list raises TypeError
IntOf(v) ==
  CASE v = "1" -> Val(1)
    [] v = "2" -> Val(2)
    [] v = "3" -> Val(3)
    [] v = "[1]" -> Exc("TypeError")
    [] OTHER -> Exc("ValueError")

\* [int(uid) for uid in message_ids]: the first element that does not
\* convert raises
RECURSIVE IntList(_)
IntList(message_ids) ==
  IF message_ids = <<>> THEN Val(<<>>)
  ELSE LET h == IntOf(Head(message_ids))
           t == IntList(Tail(message_ids))
       IN IF h.exc # None THEN Exc(h.exc)
          ELSE IF t.exc # None THEN Exc(t.exc)
          ELSE Val(<<h.val>> \o t.val)

\* a faulty resolution that prefers the default profile to every other
\* source
imap_credentials_default_first(args, env, doc) ==
  With(IF env.config_ok THEN get_default(doc) ELSE <<>>, LAMBDA dflt :
    IF dflt # <<>>
    THEN [server |-> Head(dflt).imap_server, username |-> Head(dflt).username, password |-> Head(dflt).password,
          port |-> Head(dflt).imap_port, use_ssl |-> Head(dflt).imap_ssl]
    ELSE [server |-> args.server, username |-> IF args.username = None THEN env.IMAP_USERNAME ELSE args.username,
          password |-> IF args.password = None THEN env.IMAP_PASSWORD ELSE args.password,
          port |-> IF args.port = 0 THEN DEFAULT_IMAP_PORT ELSE args.port, use_ssl |-> TRUE])

\* the credentials _auto_connect settles on: the named profile, else the
\* direct arguments; username and password completed from the environment;
\* the default profile when server, username and password are all unset
imap_credentials(args, env, doc) ==
  With(IF args.account # None /\ env.config_ok THEN get_profile(doc, args.account) ELSE <<>>, LAMBDA prof :
  With(IF prof # <<>>
       THEN [server |-> Head(prof).imap_server, username |-> Head(prof).username, password |-> Head(prof).password,
             port |-> Head(prof).imap_port, use_ssl |-> Head(prof).imap_ssl]
       ELSE [server |-> args.server, username |-> args.username, password |-> args.password,
             port |-> IF args.port = 0 THEN DEFAULT_IMAP_PORT ELSE args.port, use_ssl |-> TRUE], LAMBDA c0 :
  With([c0 EXCEPT !.username = IF @ = None THEN env.IMAP_USERNAME ELSE @,
                  !.password = IF @ = None THEN env.IMAP_PASSWORD ELSE @], LAMBDA c1 :
  With(IF env.config_ok THEN get_default(doc) ELSE <<>>, LAMBDA dflt :
    IF c1.server = None /\ c1.username = None /\ c1.password = None /\ dflt # <<>>
    THEN [server |-> Head(dflt).imap_server, username |-> Head(dflt).username, password |-> Head(dflt).password,
          port |-> Head(dflt).imap_port, use_ssl |-> Head(dflt).imap_ssl]
    ELSE c1))))

\* a faulty _auto_connect that reports the session found in the slot as one
\* it opened itself
imap_auto_connect_owns(args, w, env, doc, fail) ==
  [w |-> w, conn |-> w.slot, auto |-> w.slot # 0, exc |-> None, msg |-> None, calls |-> <<>>]

\* _auto_connect(args): (conn, auto_connected), or RuntimeError when the
\* connection attempt fails.  The session in the slot is returned as it is.
imap_auto_connect(args, w, env, doc, fail) ==
  With(imap_credentials(args, env, doc), LAMBDA c :
  With(IMAPConnection_connect(IMAPConnection, c.server, c.username, c.password, c.port, c.use_ssl, fail), LAMBDA r :
  With(NewObj(w.slot, MaxIMAPObjs), LAMBDA id :
  With([w |-> w, conn |-> 0, auto |-> FALSE, exc |-> None, msg |-> None, calls |-> <<>>], LAMBDA none :
    IF w.slot # 0 THEN [none EXCEPT !.conn = w.slot]
    ELSE IF args.account # None /\ env.config_ok /\ get_profile(doc, args.account) = <<>> THEN none
    ELSE IF c.server # None /\ c.username # None /\ c.password # None
    THEN IF r.exc # None
         THEN [none EXCEPT !.exc = "RuntimeError", !.msg = "Auto-connect failed", !.calls = r.calls]
         ELSE [w |-> [slot |-> id, objs |-> [w.objs EXCEPT ![id] = r.self]], conn |-> id, auto |-> TRUE,
               exc |-> None, msg |-> None, calls |-> r.calls]
    ELSE none))))

\* a faulty cleanup block that leaves the session connected and in the slot
imap_cleanup_keeps(w, conn, auto_connected, logout_fails) ==
  [w |-> w, calls |-> <<>>]

\* the cleanup block of the commands:
\*   if auto_connected: try: conn.disconnect(); set_connection(None) except: pass
imap_cleanup(w, conn, auto_connected, logout_fails) ==
  IF auto_connected
  THEN With(IMAPConnection_disconnect(w.objs[conn], logout_fails), LAMBDA d :
         [w |-> [slot |-> 0, objs |-> [w.objs EXCEPT ![conn] = d.self]], calls |-> d.calls])
  ELSE [w |-> w, calls |-> <<>>]

\* a faulty auto-select that selects INBOX whatever is selected
SelectInbox_always(self, fail) == IMAPConnection_select_mailbox(self, "INBOX", fail)

\* a faulty cleanup that disconnects a borrowed session too
CleanupDisconnect_always(self, auto_connected) == IMAPConnection_disconnect(self, FALSE).self

\* the first statement of the cleanup block: if auto_connected: conn.disconnect()
CleanupDisconnect(self, auto_connected) ==
  IF auto_connected THEN IMAPConnection_disconnect(self, FALSE).self ELSE self

\* if not conn.current_mailbox: conn.select_mailbox('INBOX')
SelectInbox(self, fail) ==
  IF self.current_mailbox = None THEN IMAPConnection_select_mailbox(self, "INBOX", fail) ELSE Ok(self, <<>>, None)

\* b after a: the calls of both, the exception of the first that raised
Then(a, b) == IF a.exc # None THEN a ELSE [b EXCEPT !.calls = a.calls \o @]

\* the except clauses of a command: RuntimeError gives its own message,
\* ValueError "Invalid message ID" where the command has that clause, any
\* other exception the command's "Failed ..." message
ErrorOf(r, value_error_clause) ==
  IF r.exc = "RuntimeError" THEN r.msg
  ELSE IF r.exc = "ValueError" /\ value_error_clause THEN "Invalid message ID"
  ELSE "Failed"

\* the tail every command shares: the not-connected answer, the operation r
\* run on the connection, the cleanup (on success only when the command has
\* one there) and the translation of the outcome
Finish(cmd, w, ac, r, result, cleanup_on_success, value_error_clause, fail) ==
  IF ac.exc # None THEN Done(ac.w, ac.calls, Returned(cmd, None, None, ac.msg, FALSE))
  ELSE IF ac.conn = 0 THEN Done(w, ac.calls, Returned(cmd, None, None, "Not connected", FALSE))
  ELSE With([ac.w EXCEPT !.objs[ac.conn] = r.self], LAMBDA w1 :
       With(IF r.exc = None /\ ~cleanup_on_success THEN [w |-> w1, calls |-> <<>>]
            ELSE imap_cleanup(w1, ac.conn, ac.auto, fail = "logout"), LAMBDA td :
         IF r.exc = None THEN Done(td.w, ac.calls \o r.calls \o td.calls, Returned(cmd, "success", result, None, ac.auto))
         ELSE Done(td.w, ac.calls \o r.calls \o td.calls, Returned(cmd, None, None, ErrorOf(r, value_error_clause), ac.auto))))

\* cli.connect without the disconnect of the session in the slot
imap_connect_keeps_old(args, w, env, fail) ==
  With(IF args.username = None THEN env.IMAP_USERNAME ELSE args.username, LAMBDA username :
  With(IF args.password = None THEN env.IMAP_PASSWORD ELSE args.password, LAMBDA password :
  With(IF args.port = 0 THEN DEFAULT_IMAP_PORT ELSE args.port, LAMBDA port :
  With(IF w.slot # 0 THEN Ok(w.objs[w.slot], <<>>, None) ELSE Ok(IMAPConnection, <<>>, None), LAMBDA old :
  With(IF w.slot # 0 THEN [w.objs EXCEPT ![w.slot] = old.self] ELSE w.objs, LAMBDA objs1 :
  With(NewObj(w.slot, MaxIMAPObjs), LAMBDA id :
  With(IMAPConnection_connect(IMAPConnection, args.server, username, password, port, TRUE, fail), LAMBDA r :
    IF args.server = None \/ username = None \/ password = None
    THEN Done(w, <<>>, Returned("connect", None, None, "Missing required argument", FALSE))
    ELSE IF port < 1 \/ port > 65535
    THEN Done(w, <<>>, Returned("connect", None, None, "Invalid port", FALSE))
    ELSE IF r.exc # None
    THEN Done([slot |-> w.slot, objs |-> objs1], old.calls \o r.calls, Returned("connect", None, None, "Connection failed", FALSE))
    ELSE Done([slot |-> id, objs |-> [objs1 EXCEPT ![id] = r.self]], old.calls \o r.calls, Returned("connect", "success", "connected", None, FALSE)))))))))

\* cli.connect
imap_connect(args, w, env, fail) ==
  With(IF args.username = None THEN env.IMAP_USERNAME ELSE args.username, LAMBDA username :
  With(IF args.password = None THEN env.IMAP_PASSWORD ELSE args.password, LAMBDA password :
  With(IF args.port = 0 THEN DEFAULT_IMAP_PORT ELSE args.port, LAMBDA port :
  With(IF w.slot # 0 THEN IMAPConnection_disconnect(w.objs[w.slot], fail = "logout") ELSE Ok(IMAPConnection, <<>>, None), LAMBDA old :
  With(IF w.slot # 0 THEN [w.objs EXCEPT ![w.slot] = old.self] ELSE w.objs, LAMBDA objs1 :
  With(NewObj(w.slot, MaxIMAPObjs), LAMBDA id :
  With(IMAPConnection_connect(IMAPConnection, args.server, username, password, port, TRUE, fail), LAMBDA r :
    IF args.server = None \/ username = None \/ password = None
    THEN Done(w, <<>>, Returned("connect", None, None, "Missing required argument", FALSE))
    ELSE IF port < 1 \/ port > 65535
    THEN Done(w, <<>>, Returned("connect", None, None, "Invalid port", FALSE))
    ELSE IF r.exc # None
    THEN Done([slot |-> w.slot, objs |-> objs1], old.calls \o r.calls, Returned("connect", None, None, "Connection failed", FALSE))
    ELSE Done([slot |-> id, objs |-> [objs1 EXCEPT ![id] = r.self]], old.calls \o r.calls, Returned("connect", "success", "connected", None, FALSE)))))))))

\* cli.disconnect
imap_disconnect(args, w) ==
  IF w.slot = 0 THEN Done(w, <<>>, Returned("disconnect", None, None, "Not connected", FALSE))
  ELSE With(IMAPConnection_disconnect(w.objs[w.slot], FALSE), LAMBDA d :
         Done([slot |-> 0, objs |-> [w.objs EXCEPT ![w.slot] = d.self]], d.calls, Returned("disconnect", "success", "disconnected", None, FALSE)))

\* the folder listing of the IMAP account in the command-layer model
ServerFolders == <<"INBOX", "Sent", "Archive">>

\* cli.list_mailboxes
imap_list_mailboxes(args, w, env, doc, fail) ==
  With(imap_auto_connect(args, w, env, doc, fail), LAMBDA ac :
    Finish("list_mailboxes", w, ac, IMAPConnection_list_mailboxes(ac.w.objs[ac.conn], ServerFolders, fail), "mailboxes", TRUE, FALSE, fail))

\* cli.select_mailbox: no disconnect after a successful select
imap_select_mailbox(args, w, env, doc, fail) ==
  IF args.mailbox = None THEN Done(w, <<>>, Returned("select_mailbox", None, None, "Missing required argument", FALSE))
  ELSE With(imap_auto_connect(args, w, env, doc, fail), LAMBDA ac :
         Finish("select_mailbox", w, ac, IMAPConnection_select_mailbox(ac.w.objs[ac.conn], args.mailbox, fail), "folder_info", FALSE, FALSE, fail))

\* cli.search
imap_search(args, w, env, doc, fail) ==
  IF args.criteria = None THEN Done(w, <<>>, Returned("search", None, None, "Missing required argument", FALSE))
  ELSE With(imap_auto_connect(args, w, env, doc, fail), LAMBDA ac :
       With(SelectInbox(ac.w.objs[ac.conn], fail), LAMBDA s :
         Finish("search", w, ac, Then(s, IMAPConnection_search(s.self, args.criteria, fail)), "message_ids", TRUE, FALSE, fail)))

\* the guardrail defaults of fetch (MAX_BODY_BYTES, MAX_ATTACHMENT_BYTES)
MAX_BODY_BYTES == 10485760

\* cli.fetch: int(message_id) is guarded by `except ValueError` only; the
\* current mailbox of the session is added to the email data
imap_fetch(args, w, env, doc, fail) ==
  IF args.message_id = None THEN Done(w, <<>>, Returned("fetch", None, None, "Missing required argument", FALSE))
  ELSE With(IntOf(args.message_id), LAMBDA uid :
    IF uid.exc = "ValueError" THEN Done(w, <<>>, Returned("fetch", None, None, "Invalid message ID", FALSE))
    ELSE IF uid.exc # None THEN Done(w, <<>>, Escaped("fetch", uid.exc, FALSE))
    ELSE With(imap_auto_connect(args, w, env, doc, fail), LAMBDA ac :
         With(SelectInbox(ac.w.objs[ac.conn], fail), LAMBDA s :
         With(Finish("fetch", w, ac, Then(s, IMAPConnection_fetch_email(s.self, uid.val, MAX_BODY_BYTES, MAX_ATTACHMENT_BYTES, fail)), "email", TRUE, FALSE, fail), LAMBDA d :
           IF d.ret.status = "success" THEN [d EXCEPT !.ret.mailbox = s.self.current_mailbox] ELSE d))))

\* the sandbox answer of the destructive commands
Sandbox(cmd, w, marker) == Done(w, <<>>, Returned(cmd, "sandbox", marker, None, FALSE))

\* int conversion of the ids after the mailbox selection, then the operation
Convert(s, uids) == IF s.exc = None /\ uids.exc # None THEN Raise(s.self, s.calls, uids.exc, "int") ELSE s

\* cli.mark_read
imap_mark_read(args, w, env, doc, fail) ==
  IF args.message_ids = <<>> THEN Done(w, <<>>, Returned("mark_read", None, None, "Missing required argument", FALSE))
  ELSE IF args.sandbox THEN Sandbox("mark_read", w, "would_mark_read")
  ELSE With(imap_auto_connect(args, w, env, doc, fail), LAMBDA ac :
       With(IntList(args.message_ids), LAMBDA uids :
       With(Convert(SelectInbox(ac.w.objs[ac.conn], fail), uids), LAMBDA s :
         Finish("mark_read", w, ac, Then(s, IMAPConnection_mark_read(s.self, uids.val, fail)), "marked_read", TRUE, TRUE, fail))))

\* cli.mark_unread
imap_mark_unread(args, w, env, doc, fail) ==
  IF args.message_ids = <<>> THEN Done(w, <<>>, Returned("mark_unread", None, None, "Missing required argument", FALSE))
  ELSE IF args.sandbox THEN Sandbox("mark_unread", w, "would_mark_unread")
  ELSE With(imap_auto_connect(args, w, env, doc, fail), LAMBDA ac :
       With(IntList(args.message_ids), LAMBDA uids :
       With(Convert(SelectInbox(ac.w.objs[ac.conn], fail), uids), LAMBDA s :
         Finish("mark_unread", w, ac, Then(s, IMAPConnection_mark_unread(s.self, uids.val, fail)), "marked_unread", TRUE, TRUE, fail))))

\* a faulty delete command that looks at the sandbox flag only after
\* _auto_connect
imap_delete_sandbox_late(args, w, env, doc, fail) ==
  IF args.message_ids = <<>> THEN Done(w, <<>>, Returned("delete", None, None, "Missing required argument", FALSE))
  ELSE With(imap_auto_connect(args, w, env, doc, fail), LAMBDA ac :
       With(IntList(args.message_ids), LAMBDA uids :
       With(Convert(SelectInbox(ac.w.objs[ac.conn], fail), uids), LAMBDA s :
         IF args.sandbox /\ ac.exc = None THEN Done(ac.w, ac.calls, Returned("delete", "sandbox", "would_delete", None, FALSE))
         ELSE Finish("delete", w, ac, Then(s, IMAPConnection_delete(s.self, uids.val, fail)), "deleted", TRUE, TRUE, fail))))

\* cli.delete
imap_delete(args, w, env, doc, fail) ==
  IF args.message_ids = <<>> THEN Done(w, <<>>, Returned("delete", None, None, "Missing required argument", FALSE))
  ELSE IF args.sandbox THEN Sandbox("delete", w, "would_delete")
  ELSE With(imap_auto_connect(args, w, env, doc, fail), LAMBDA ac :
       With(IntList(args.message_ids), LAMBDA uids :
       With(Convert(SelectInbox(ac.w.objs[ac.conn], fail), uids), LAMBDA s :
         Finish("delete", w, ac, Then(s, IMAPConnection_delete(s.self, uids.val, fail)), "deleted", TRUE, TRUE, fail))))

\* cli.move
imap_move(args, w, env, doc, fail) ==
  IF args.message_ids = <<>> \/ args.target_mailbox = None
  THEN Done(w, <<>>, Returned("move", None, None, "Missing required argument", FALSE))
  ELSE IF args.sandbox THEN Sandbox("move", w, "would_move")
  ELSE With(imap_auto_connect(args, w, env, doc, fail), LAMBDA ac :
       With(IntList(args.message_ids), LAMBDA uids :
       With(Convert(SelectInbox(ac.w.objs[ac.conn], fail), uids), LAMBDA s :
         Finish("move", w, ac, Then(s, IMAPConnection_move(s.self, uids.val, args.target_mailbox, fail)), "moved", TRUE, TRUE, fail))))

\* =====================================================================
\* tools/smtp/cli.py : the SMTP command layer
\* =====================================================================

\* a faulty resolution in which complete direct arguments win over the named
\* profile
smtp_credentials_args_first(args, env, doc) ==
  LET FromProfile(p) == [server |-> p.smtp_server, username |-> p.username, password |-> p.password,
                         port |-> p.smtp_port, use_tls |-> p.smtp_tls,
                         imap_server |-> p.imap_server, imap_port |-> p.imap_port, imap_ssl |-> <<p.imap_ssl>>]
      env_user == IF env.SMTP_USERNAME # None THEN env.SMTP_USERNAME ELSE env.IMAP_USERNAME
      env_pass == IF env.SMTP_PASSWORD # None THEN env.SMTP_PASSWORD ELSE env.IMAP_PASSWORD
  IN With(IF args.account # None /\ env.config_ok THEN get_profile(doc, args.account) ELSE <<>>, LAMBDA prof :
     With(IF prof # <<>> /\ (args.server = None \/ args.username = None \/ args.password = None) THEN FromProfile(Head(prof))
          ELSE [server |-> args.server, username |-> args.username, password |-> args.password,
                port |-> IF args.port = 0 THEN DEFAULT_SMTP_PORT ELSE args.port, use_tls |-> TRUE,
                imap_server |-> args.imap_server, imap_port |-> 0, imap_ssl |-> <<>>], LAMBDA c0 :
     With([c0 EXCEPT !.username = IF @ = None THEN env_user ELSE @,
                     !.password = IF @ = None THEN env_pass ELSE @], LAMBDA c1 :
     With(IF env.config_ok THEN get_default(doc) ELSE <<>>, LAMBDA dflt :
       IF c1.server = None /\ c1.username = None /\ c1.password = None /\ dflt # <<>>
       THEN FromProfile(Head(dflt))
       ELSE c1))))

\* the credentials and IMAP settings the SMTP _auto_connect settles on
smtp_credentials(args, env, doc) ==
  LET FromProfile(p) == [server |-> p.smtp_server, username |-> p.username, password |-> p.password,
                         port |-> p.smtp_port, use_tls |-> p.smtp_tls,
                         imap_server |-> p.imap_server, imap_port |-> p.imap_port, imap_ssl |-> <<p.imap_ssl>>]
      env_user == IF env.SMTP_USERNAME # None THEN env.SMTP_USERNAME ELSE env.IMAP_USERNAME
      env_pass == IF env.SMTP_PASSWORD # None THEN env.SMTP_PASSWORD ELSE env.IMAP_PASSWORD
  IN With(IF args.account # None /\ env.config_ok THEN get_profile(doc, args.account) ELSE <<>>, LAMBDA prof :
     With(IF prof # <<>> THEN FromProfile(Head(prof))
          ELSE [server |-> args.server, username |-> args.username, password |-> args.password,
                port |-> IF args.port = 0 THEN DEFAULT_SMTP_PORT ELSE args.port, use_tls |-> TRUE,
                imap_server |-> args.imap_server, imap_port |-> 0, imap_ssl |-> <<>>], LAMBDA c0 :
     With([c0 EXCEPT !.username = IF @ = None THEN env_user ELSE @,
                     !.password = IF @ = None THEN env_pass ELSE @], LAMBDA c1 :
     With(IF env.config_ok THEN get_default(doc) ELSE <<>>, LAMBDA dflt :
       IF c1.server = None /\ c1.username = None /\ c1.password = None /\ dflt # <<>>
       THEN FromProfile(Head(dflt))
       ELSE c1))))

\* _auto_connect(args) of the SMTP command layer; the IMAP settings found
\* are stored on the new session for the sent-folder echo
smtp_auto_connect(args, w, env, doc, fail) ==
  With(smtp_credentials(args, env, doc), LAMBDA c :
  With(SMTPConnection_connect(SMTPConnection, c.server, c.username, c.password, c.port, c.use_tls, fail), LAMBDA r :
  With([r.self EXCEPT !.imap_server = IF c.imap_server # None THEN c.imap_server ELSE @,
                      !.imap_port = IF c.imap_port # 0 THEN c.imap_port ELSE @,
                      !.imap_ssl = IF c.imap_ssl # <<>> THEN c.imap_ssl ELSE @], LAMBDA conn :
  With(NewObj(w.slot, MaxSMTPObjs), LAMBDA id :
  With([w |-> w, conn |-> 0, auto |-> FALSE, exc |-> None, msg |-> None, calls |-> <<>>], LAMBDA none :
    IF w.slot # 0 THEN [none EXCEPT !.conn = w.slot]
    ELSE IF args.account # None /\ env.config_ok /\ get_profile(doc, args.account) = <<>> THEN none
    ELSE IF c.server # None /\ c.username # None /\ c.password # None
    THEN IF r.exc # None
         THEN [none EXCEPT !.exc = "RuntimeError", !.msg = "Auto-connect failed", !.calls = r.calls]
         ELSE [w |-> [slot |-> id, objs |-> [w.objs EXCEPT ![id] = conn]], conn |-> id, auto |-> TRUE,
               exc |-> None, msg |-> None, calls |-> r.calls]
    ELSE none)))))

\* the cleanup block of the SMTP commands
smtp_cleanup(w, conn, auto_connected, quit_fails) ==
  IF auto_connected
  THEN With(SMTPConnection_disconnect(w.objs[conn], quit_fails, FALSE), LAMBDA d :
         [w |-> [slot |-> 0, objs |-> [w.objs EXCEPT ![conn] = d.self]], calls |-> d.calls])
  ELSE [w |-> w, calls |-> <<>>]

\* the tail the three send commands share
smtp_finish(cmd, w, ac, r, fail) ==
  IF ac.exc # None THEN Done(ac.w, ac.calls, Returned(cmd, None, None, ac.msg, FALSE))
  ELSE IF ac.conn = 0 THEN Done(w, ac.calls, Returned(cmd, None, None, "Not connected", FALSE))
  ELSE With(smtp_cleanup([ac.w EXCEPT !.objs[ac.conn] = r.self], ac.conn, ac.auto, fail = "quit"), LAMBDA td :
         IF r.exc = None THEN Done(td.w, ac.calls \o r.calls \o td.calls, Returned(cmd, "success", "sent", None, ac.auto))
         ELSE Done(td.w, ac.calls \o r.calls \o td.calls, Returned(cmd, None, None, ErrorOf(r, FALSE), ac.auto)))

\* cli.send
smtp_send(args, w, env, doc, fail, eo) ==
  IF args.to = <<>> \/ args.subject = None \/ args.body = None
  THEN Done(w, <<>>, Returned("send", None, None, "Missing required argument", FALSE))
  ELSE With(smtp_auto_connect(args, w, env, doc, fail), LAMBDA ac :
         smtp_finish("send", w, ac, SMTPConnection_send_email(ac.w.objs[ac.conn], args.to, args.subject, args.body, args.from, args.cc, args.bcc, None, FALSE, None, fail, doc, eo), fail))

\* cli.send_html
smtp_send_html(args, w, env, doc, fail, eo) ==
  IF args.to = <<>> \/ args.subject = None \/ args.body = None
  THEN Done(w, <<>>, Returned("send_html", None, None, "Missing required argument", FALSE))
  ELSE With(smtp_auto_connect(args, w, env, doc, fail), LAMBDA ac :
         smtp_finish("send_html", w, ac, SMTPConnection_send_email(ac.w.objs[ac.conn], args.to, args.subject, args.body, args.from, args.cc, args.bcc, None, TRUE, args.text_body, fail, doc, eo), fail))

\* cli.send_with_attachment
smtp_send_with_attachment(args, w, env, doc, fail, eo) ==
  IF args.to = <<>> \/ args.subject = None \/ args.body = None
  THEN Done(w, <<>>, Returned("send_with_attachment", None, None, "Missing required argument", FALSE))
  ELSE IF args.attachments = <<>>
  THEN Done(w, <<>>, Returned("send_with_attachment", None, None, "Missing required argument", FALSE))
  ELSE With(smtp_auto_connect(args, w, env, doc, fail), LAMBDA ac :
         smtp_finish("send_with_attachment", w, ac, SMTPConnection_send_email_with_attachments(ac.w.objs[ac.conn], args.to, args.subject, args.body, args.attachments, args.from, args.cc, args.bcc, None, FALSE, fail, doc, eo), fail))

\* =====================================================================
\* State
\* =====================================================================
VARIABLES
  imap_connection,  \* tools.imap.imap_client._connection: reference, 0 = None
  imap_objs,        \* the IMAPConnection objects, by reference
  smtp_connection,  \* tools.smtp.smtp_client._connection: reference, 0 = None
  smtp_objs,        \* the SMTPConnection objects, by reference
  environ,          \* os.environ, and whether tools.config can be imported
  accounts_file,    \* the persisted profile document
  calls,            \* the library calls the last operation issued, in order
  ret,              \* what the last operation returned or raised
  conn,             \* an IMAPConnection used directly through its methods
  sender,           \* an SMTPConnection used directly through its methods
  norm_in,          \* the arguments of the last normalize_email call
  norm_out,         \* its result
  managers,         \* the ProfileManager objects: their in-memory views
  store,            \* the messages of the IMAP account, by mailbox
  procs             \* the commands in flight when commands run concurrently

vars == <<imap_connection, imap_objs, smtp_connection, smtp_objs, environ, accounts_file, calls, ret, conn, sender, norm_in, norm_out, managers, store, procs>>

cliVars == <<imap_connection, imap_objs, smtp_connection, smtp_objs, environ, accounts_file>>

NoRet == Returned(None, None, None, None, FALSE)

\* ---------------------------------------------------------------------
\* the command layer: input domains
\* ---------------------------------------------------------------------
NoEnv == [IMAP_USERNAME |-> None, IMAP_PASSWORD |-> None, SMTP_USERNAME |-> None, SMTP_PASSWORD |-> None, config_ok |-> TRUE]

Environments == {NoEnv, [NoEnv EXCEPT !.IMAP_USERNAME = "me@env.net", !.IMAP_PASSWORD = "pw.env"]}

Documents == {EmptyDoc, [profiles |-> <<HomeProfile, WorkProfile>>, default_profile |-> "work"]}

\* the connection arguments of a command
NoConnArgs == [account |-> None, server |-> None, username |-> None, password |-> None, port |-> 0, imap_server |-> None]

AllConnArgs(server) ==
  LET full == [NoConnArgs EXCEPT !.server = server, !.username = "me@arg.com", !.password = "pw.arg"]
  IN {NoConnArgs, [NoConnArgs EXCEPT !.account = "work"], [NoConnArgs EXCEPT !.account = "nosuch"],
      [NoConnArgs EXCEPT !.server = server], full, [full EXCEPT !.account = "work"]}

\* a command that finds a session in the slot does not read them
ConnArgs(slot, server) == IF slot # 0 THEN {NoConnArgs} ELSE AllConnArgs(server)

\* the library call that fails during a command ("none": no call fails); a
\* command that returns before its first library call does not consult it
ConnectFails == {"IMAPClient", "login", "login_auth", "login_auth_plain"}

ImapFails(slot, valid, opFails) ==
  IF ~valid THEN {"none"}
  ELSE {"none", "logout"} \cup opFails \cup (IF slot = 0 THEN ConnectFails ELSE {})

MessageIds == {<<>>, <<"1">>, <<"1", "x">>}

ImapWorld == [slot |-> imap_connection, objs |-> imap_objs]

SmtpWorld == [slot |-> smtp_connection, objs |-> smtp_objs]

\* objects nothing refers to any more are as good as new
Collect(w, fresh) == [i \in DOMAIN w.objs |-> IF i = w.slot THEN w.objs[i] ELSE fresh]

\* the `mailbox` argument a command may be given (None: absent); a call that
\* fails its argument checks is drawn without one
Mailboxes(valid) == IF valid THEN {None, "Sent"} ELSE {None}

\* the outcome d of a command called with the argument mailbox
Asked(mailbox, d) == [d EXCEPT !.ret.args_mailbox = mailbox]

\* a command is called when the caller holds no pending result: commands of
\* one process run one after the other
ImapStep(d) ==
  /\ ret.cmd = None
  /\ imap_connection' = d.w.slot
  /\ imap_objs' = Collect(d.w, IMAPConnection)
  /\ calls' = d.calls
  /\ ret' = d.ret
  /\ UNCHANGED <<smtp_connection, smtp_objs, environ, accounts_file, conn, sender, norm_in, norm_out, managers, store, procs>>

SmtpStep(d) ==
  /\ ret.cmd = None
  /\ smtp_connection' = d.w.slot
  /\ smtp_objs' = Collect(d.w, SMTPConnection)
  /\ calls' = d.calls
  /\ ret' = d.ret
  /\ UNCHANGED <<imap_connection, imap_objs, environ, accounts_file, conn, sender, norm_in, norm_out, managers, store, procs>>

\* ---------------------------------------------------------------------
\* the command layer: one action per command
\* ---------------------------------------------------------------------
CmdConnect ==
  \E server \in {None, "imap.arg.com"}, up \in {<<None, None>>, <<"me@arg.com", "pw.arg">>}, port \in {0, 70000} :
    \E fail \in IF server = None \/ port = 70000 THEN {"none"} ELSE {"none", "logout"} \cup ConnectFails :
      ImapStep(imap_connect([NoConnArgs EXCEPT !.server = server, !.username = up[1], !.password = up[2], !.port = port], ImapWorld, environ, fail))

CmdDisconnect == ImapStep(imap_disconnect(NoConnArgs, ImapWorld))

CmdListMailboxes ==
  \E a \in ConnArgs(imap_connection, "imap.arg.com"), fail \in ImapFails(imap_connection, TRUE, {"list_folders"}) :
    ImapStep(imap_list_mailboxes(a, ImapWorld, environ, accounts_file, fail))

CmdSelectMailbox ==
  \E a \in ConnArgs(imap_connection, "imap.arg.com"), mailbox \in {None, "INBOX", "Archive"} :
    \E fail \in ImapFails(imap_connection, mailbox # None, {"select_folder"}) :
      ImapStep(imap_select_mailbox([mailbox |-> mailbox] @@ a, ImapWorld, environ, accounts_file, fail))

CmdSearch ==
  \E a \in ConnArgs(imap_connection, "imap.arg.com"), criteria \in {None, "ALL", "bogus"} :
    \E fail \in ImapFails(imap_connection, criteria # None, {"select_folder", "search"}), mailbox \in Mailboxes(criteria # None) :
      ImapStep(Asked(mailbox, imap_search([criteria |-> criteria, mailbox |-> mailbox] @@ a, ImapWorld, environ, accounts_file, fail)))

CmdFetch ==
  \E a \in ConnArgs(imap_connection, "imap.arg.com"), message_id \in {None, "1", "2", "3", "x", "[1]"} :
    \E fail \in ImapFails(imap_connection, message_id \in {"1", "2", "3"}, {"select_folder", "fetch"}), mailbox \in Mailboxes(message_id \in {"1", "2", "3"}) :
      ImapStep(Asked(mailbox, imap_fetch([message_id |-> message_id, mailbox |-> mailbox] @@ a, ImapWorld, environ, accounts_file, fail)))

CmdMarkRead ==
  \E a \in ConnArgs(imap_connection, "imap.arg.com"), ids \in MessageIds, sandbox \in BOOLEAN :
    \E fail \in ImapFails(imap_connection, ids # <<>> /\ ~sandbox, {"select_folder", "set_flags"}), mailbox \in Mailboxes(ids # <<>> /\ ~sandbox) :
      ImapStep(Asked(mailbox, imap_mark_read([message_ids |-> ids, sandbox |-> sandbox, mailbox |-> mailbox] @@ a, ImapWorld, environ, accounts_file, fail)))

CmdMarkUnread ==
  \E a \in ConnArgs(imap_connection, "imap.arg.com"), ids \in MessageIds, sandbox \in BOOLEAN :
    \E fail \in ImapFails(imap_connection, ids # <<>> /\ ~sandbox, {"select_folder", "remove_flags"}), mailbox \in Mailboxes(ids # <<>> /\ ~sandbox) :
      ImapStep(Asked(mailbox, imap_mark_unread([message_ids |-> ids, sandbox |-> sandbox, mailbox |-> mailbox] @@ a, ImapWorld, environ, accounts_file, fail)))

CmdDelete ==
  \E a \in ConnArgs(imap_connection, "imap.arg.com"), ids \in MessageIds, sandbox \in BOOLEAN :
    \E fail \in ImapFails(imap_connection, ids # <<>> /\ ~sandbox, {"select_folder", "set_flags", "expunge"}), mailbox \in Mailboxes(ids # <<>> /\ ~sandbox) :
      ImapStep(Asked(mailbox, imap_delete([message_ids |-> ids, sandbox |-> sandbox, mailbox |-> mailbox] @@ a, ImapWorld, environ, accounts_file, fail)))

CmdMove ==
  \E a \in ConnArgs(imap_connection, "imap.arg.com"), ids \in MessageIds, target \in {None, "Archive"}, sandbox \in BOOLEAN :
    \E fail \in ImapFails(imap_connection, ids # <<>> /\ target # None /\ ~sandbox, {"select_folder", "copy", "set_flags", "expunge"}), mailbox \in Mailboxes(ids # <<>> /\ target # None /\ ~sandbox) :
      ImapStep(Asked(mailbox, imap_move([message_ids |-> ids, target_mailbox |-> target, sandbox |-> sandbox, mailbox |-> mailbox] @@ a, ImapWorld, environ, accounts_file, fail)))

\* the oracle of the sent-folder echo in the command-layer model
EchoOk == [imap_import |-> "ok", config_ok |-> TRUE, fail |-> "none", folders |-> ServerFolders]

CliEchoOracles(valid) == IF valid THEN {EchoOk, [EchoOk EXCEPT !.fail = "append"], [EchoOk EXCEPT !.imap_import = "none"]} ELSE {EchoOk}

SmtpFails(slot, valid) ==
  IF ~valid THEN {"none"}
  ELSE {"none", "sendmail", "quit"} \cup (IF slot = 0 THEN {"SMTP", "starttls", "login"} ELSE {})

\* the message arguments of the send commands
GoodMail == [to |-> <<"to@x">>, subject |-> "hi", body |-> "text", from |-> None, cc |-> <<>>, bcc |-> <<>>, text_body |-> None]

MailArgs == {GoodMail, [GoodMail EXCEPT !.bcc = <<"bcc@x">>], [GoodMail EXCEPT !.to = <<>>], [GoodMail EXCEPT !.subject = None]}

ValidMail(m) == m.to # <<>> /\ m.subject # None /\ m.body # None

GoodFile == [exists |-> TRUE, size |-> 1000, readable |-> TRUE]

MissingFile == [exists |-> FALSE, size |-> 0, readable |-> FALSE]

BigFile == [exists |-> TRUE, size |-> MAX_ATTACHMENT_BYTES + 1, readable |-> TRUE]

CmdSend ==
  \E a \in ConnArgs(smtp_connection, "smtp.work.com"), m \in MailArgs :
    \E fail \in SmtpFails(smtp_connection, ValidMail(m)), eo \in CliEchoOracles(ValidMail(m)) :
      SmtpStep(smtp_send(m @@ a, SmtpWorld, environ, accounts_file, fail, eo))

CmdSendHtml ==
  \E a \in ConnArgs(smtp_connection, "smtp.work.com"), m \in MailArgs :
    \E fail \in SmtpFails(smtp_connection, ValidMail(m)), eo \in CliEchoOracles(ValidMail(m)) :
      SmtpStep(smtp_send_html(m @@ a, SmtpWorld, environ, accounts_file, fail, eo))

CmdSendWithAttachment ==
  \E a \in ConnArgs(smtp_connection, "smtp.work.com"), m \in MailArgs, atts \in {<<>>, <<GoodFile>>, <<GoodFile, MissingFile>>} :
    \E fail \in SmtpFails(smtp_connection, ValidMail(m) /\ atts # <<>>), eo \in CliEchoOracles(ValidMail(m) /\ atts # <<>>) :
      SmtpStep(smtp_send_with_attachment([attachments |-> atts] @@ m @@ a, SmtpWorld, environ, accounts_file, fail, eo))

\* smtp_client.set_connection(conn), called by the embedding process with
\* None or with a session it has connected itself
SetSmtpConnection ==
  \E keep \in BOOLEAN :
    LET id == NewObj(smtp_connection, MaxSMTPObjs)
        c == SMTPConnection_connect(SMTPConnection, "smtp.work.com", "me@work.com", "pw.work", DEFAULT_SMTP_PORT, TRUE, "none")
        w == IF keep THEN [slot |-> id, objs |-> [smtp_objs EXCEPT ![id] = c.self]] ELSE [slot |-> 0, objs |-> smtp_objs]
    IN SmtpStep(Done(w, IF keep THEN c.calls ELSE <<>>, Returned("set_connection", None, None, None, FALSE)))

\* the caller (main, or the embedding process) takes what the command
\* returned or raised; the next command starts from there
Reply ==
  /\ ret.cmd # None
  /\ ret' = NoRet
  /\ calls' = <<>>
  /\ UNCHANGED <<imap_connection, imap_objs, smtp_connection, smtp_objs, environ, accounts_file, conn, sender, norm_in, norm_out, managers, store, procs>>

Init ==
  /\ imap_connection = 0
  /\ imap_objs = [i \in 1..MaxIMAPObjs |-> IMAPConnection]
  /\ smtp_connection = 0
  /\ smtp_objs = [i \in 1..MaxSMTPObjs |-> SMTPConnection]
  /\ environ \in Environments
  /\ accounts_file \in Documents
  /\ calls = <<>>
  /\ ret = NoRet
  /\ conn = IMAPConnection
  /\ sender = SMTPConnection
  /\ norm_in = None
  /\ norm_out = <<>>
  /\ managers = NoManagers
  /\ store = EmptyStore
  /\ procs = NoProcs

Next ==
  \/ CmdConnect
  \/ CmdDisconnect
  \/ CmdListMailboxes
  \/ CmdSelectMailbox
  \/ CmdSearch
  \/ CmdFetch
  \/ CmdMarkRead
  \/ CmdMarkUnread
  \/ CmdDelete
  \/ CmdMove
  \/ CmdSend
  \/ CmdSendHtml
  \/ CmdSendWithAttachment
  \/ SetSmtpConnection
  \/ Reply

\* the command layer of both protocols in one process
Spec == Init /\ [][Next]_vars

\* =====================================================================
\* The session objects used directly through their methods
\* =====================================================================

\* what a method call gave: the method, its arguments, the exception it
\* raised (None when it returned) and the value it returned
MethodRet(cmd, args, r) == [cmd |-> cmd, args |-> args, exc |-> r.exc, msg |-> r.msg, val |-> r.val]

NoCall == [cmd |-> None, args |-> <<>>, exc |-> None, msg |-> None, val |-> None]

\* the caller takes what the method returned or raised
Return ==
  /\ ret.cmd # None
  /\ ret' = NoCall
  /\ calls' = <<>>
  /\ UNCHANGED <<imap_connection, imap_objs, smtp_connection, smtp_objs, environ, accounts_file, conn, sender, norm_in, norm_out, managers, store, procs>>

\* ---------------------------------------------------------------------
\* IMAPConnection: one action per method, on the session conn
\* ---------------------------------------------------------------------
ConnStep(cmd, args, r) ==
  /\ ret.cmd = None
  /\ conn' = r.self
  /\ calls' = r.calls
  /\ ret' = MethodRet(cmd, args, r)
  /\ store' = ServerApply(store, conn.current_mailbox, Applied(r))
  /\ UNCHANGED <<imap_connection, imap_objs, smtp_connection, smtp_objs, environ, accounts_file, sender, norm_in, norm_out, managers, procs>>

Listings == {ServerFolders, <<"INBOX", "Archive">>, <<"INBOX", "sent items", "Sent Drafts">>, <<"INBOX", "My Sent Stuff">>}

Connect ==
  \E server \in {"imap.work.com", "imap.home.org"}, fail \in {"none"} \cup ConnectFails :
    ConnStep("connect", <<server, "me@work.com", fail>>, IMAPConnection_connect(conn, server, "me@work.com", "pw.work", DEFAULT_IMAP_PORT, TRUE, fail))

Disconnect ==
  \E logout_fails \in BOOLEAN :
    ConnStep("disconnect", <<logout_fails>>, IMAPConnection_disconnect(conn, logout_fails))

ListMailboxes ==
  \E folders \in Listings, fail \in {"none", "list_folders"} :
    ConnStep("list_mailboxes", <<>>, IMAPConnection_list_mailboxes(conn, folders, fail))

SelectMailbox ==
  \E mailbox \in {"INBOX", "Archive"}, fail \in {"none", "select_folder"} :
    ConnStep("select_mailbox", <<mailbox>>, IMAPConnection_select_mailbox(conn, mailbox, fail))

Search ==
  \E criteria \in {"ALL", "UNSEEN", "FROM a@x", "bogus"}, fail \in {"none", "search"} :
    ConnStep("search", <<criteria>>, IMAPConnection_search(conn, criteria, fail))

FetchEmail ==
  \E uid \in {1, 2, 3}, fail \in {"none", "fetch"} :
    ConnStep("fetch_email", <<uid, fail>>, IMAPConnection_fetch_email(conn, uid, MAX_BODY_BYTES, MAX_ATTACHMENT_BYTES, fail))

MarkRead ==
  \E uids \in Uids, fail \in {"none", "set_flags"} :
    ConnStep("mark_read", <<uids>>, IMAPConnection_mark_read(conn, uids, fail))

MarkUnread ==
  \E uids \in Uids, fail \in {"none", "remove_flags"} :
    ConnStep("mark_unread", <<uids>>, IMAPConnection_mark_unread(conn, uids, fail))

Delete ==
  \E uids \in Uids, fail \in {"none", "set_flags", "expunge"} :
    ConnStep("delete", <<uids>>, IMAPConnection_delete(conn, uids, fail))

Move ==
  \E uids \in Uids, target_mailbox \in {"Archive", "Trash"}, fail \in {"none", "copy", "set_flags", "expunge"} :
    ConnStep("move", <<uids, target_mailbox>>, IMAPConnection_move(conn, uids, target_mailbox, fail))

AppendToMailbox ==
  \E fail \in {"none", "append"} :
    ConnStep("append_to_mailbox", <<"Sent">>, IMAPConnection_append_to_mailbox(conn, "Sent", "message", fail))

\* the folder listings find_sent_folder is called on: up to MaxFolders names
MaxFolders == 2

FolderListings == UNION {[1..n -> FolderNames] : n \in 0..MaxFolders}

FindSentFolder ==
  \E folders \in FolderListings, fail \in {"none", "list_folders"} :
    ConnStep("find_sent_folder", <<folders, fail>>, IMAPConnection_find_sent_folder(conn, folders, fail))

InitIMAP ==
  /\ imap_connection = 0
  /\ imap_objs = [i \in 1..MaxIMAPObjs |-> IMAPConnection]
  /\ smtp_connection = 0
  /\ smtp_objs = [i \in 1..MaxSMTPObjs |-> SMTPConnection]
  /\ environ = NoEnv
  /\ accounts_file = EmptyDoc
  /\ calls = <<>>
  /\ ret = NoCall
  /\ conn = IMAPConnection
  /\ sender = SMTPConnection
  /\ norm_in = None
  /\ norm_out = <<>>
  /\ managers = NoManagers
  /\ store = EmptyStore
  /\ procs = NoProcs

NextIMAP ==
  \/ Connect
  \/ Disconnect
  \/ ListMailboxes
  \/ SelectMailbox
  \/ Search
  \/ FetchEmail
  \/ MarkRead
  \/ MarkUnread
  \/ Delete
  \/ Move
  \/ AppendToMailbox
  \/ FindSentFolder
  \/ Return

\* an IMAP session driven through its methods
SpecIMAP == InitIMAP /\ [][NextIMAP]_vars

\* ---------------------------------------------------------------------
\* SMTPConnection: one action per method, on the session sender
\* ---------------------------------------------------------------------
SenderStep(cmd, args, r) ==
  /\ ret.cmd = None
  /\ sender' = r.self
  /\ calls' = r.calls
  /\ ret' = MethodRet(cmd, args, r)
  /\ UNCHANGED <<imap_connection, imap_objs, smtp_connection, smtp_objs, environ, accounts_file, conn, norm_in, norm_out, managers, store, procs>>

\* the oracles of the sent-folder echo: no failure, or one step that fails
EchoOracles ==
  {EchoOk, [EchoOk EXCEPT !.imap_import = "raises"], [EchoOk EXCEPT !.imap_import = "none"],
   [EchoOk EXCEPT !.config_ok = FALSE], [EchoOk EXCEPT !.folders = <<"INBOX", "Archive">>]}
  \cup {[EchoOk EXCEPT !.fail = f] : f \in {"IMAPClient", "login", "login_auth_plain", "list_folders", "append", "logout"}}

UnreadableFile == [exists |-> TRUE, size |-> 1000, readable |-> FALSE]

AttachmentFiles == {GoodFile, MissingFile, BigFile}

\* the attachment lists of at most MaxAttachments paths, and one with a
\* file that passes the validation and cannot be opened
AttachmentLists == UNION {[1..n -> AttachmentFiles] : n \in 0..MaxAttachments} \cup {<<GoodFile, UnreadableFile>>}

SmtpConnect ==
  \E host \in {"smtp.work.com", "mailhost"}, username \in {"me@work.com", "me@else.net"}, fail \in {"none", "SMTP", "starttls", "login"} :
    SenderStep("connect", <<host, username>>, SMTPConnection_connect(sender, host, username, "pw.work", DEFAULT_SMTP_PORT, TRUE, fail))

SmtpDisconnect ==
  \E quit_fails \in BOOLEAN, close_fails \in BOOLEAN :
    SenderStep("disconnect", <<quit_fails, close_fails>>, SMTPConnection_disconnect(sender, quit_fails, close_fails))

\* conn.imap_server = imap_server, as _auto_connect assigns it
SetImapServer ==
  \E imap_server \in {"imap.arg.com"} :
    SenderStep("set_imap_server", <<imap_server>>, Ok([sender EXCEPT !.imap_server = imap_server], <<>>, None))

SendEmail ==
  \E m \in {GoodMail, [GoodMail EXCEPT !.bcc = <<"bcc@x">>], [GoodMail EXCEPT !.cc = <<"cc@x">>, !.bcc = <<"bcc@x", "bcc@y">>]},
     html \in BOOLEAN, fail \in {"none", "sendmail"}, eo \in EchoOracles :
    SenderStep("send_email", [to |-> m.to, cc |-> m.cc, bcc |-> m.bcc, fail |-> fail, eo |-> eo],
               SMTPConnection_send_email(sender, m.to, m.subject, m.body, m.from, m.cc, m.bcc, None, html, None, fail, accounts_file, eo))

SendEmailWithAttachments ==
  \E attachments \in AttachmentLists, copies \in {<<<<>>, <<>>>>, <<<<"cc@x">>, <<"bcc@x">>>>}, fail \in {"none", "sendmail"}, eo \in EchoOracles :
    SenderStep("send_email_with_attachments", [to |-> GoodMail.to, cc |-> copies[1], bcc |-> copies[2], attachments |-> attachments, fail |-> fail, eo |-> eo],
               SMTPConnection_send_email_with_attachments(sender, GoodMail.to, GoodMail.subject, GoodMail.body, attachments, None, copies[1], copies[2], None, FALSE, fail, accounts_file, eo))

\* the profile documents the echo reads: none, two accounts, the work
\* account twice with the IMAP server set on the default profile only, and
\* two profiles of the work account's username with different servers
EchoDocuments ==
  Documents \cup
  {[profiles |-> <<[WorkProfile EXCEPT !.name = "old", !.imap_server = None], WorkProfile>>, default_profile |-> "work"],
   [profiles |-> <<[HomeProfile EXCEPT !.username = "me@work.com"], WorkProfile>>, default_profile |-> "work"]}

InitSMTP ==
  /\ imap_connection = 0
  /\ imap_objs = [i \in 1..MaxIMAPObjs |-> IMAPConnection]
  /\ smtp_connection = 0
  /\ smtp_objs = [i \in 1..MaxSMTPObjs |-> SMTPConnection]
  /\ environ = NoEnv
  /\ accounts_file \in EchoDocuments
  /\ calls = <<>>
  /\ ret = NoCall
  /\ conn = IMAPConnection
  /\ sender = SMTPConnection
  /\ norm_in = None
  /\ norm_out = <<>>
  /\ managers = NoManagers
  /\ store = EmptyStore
  /\ procs = NoProcs

NextSMTP ==
  \/ SmtpConnect
  \/ SmtpDisconnect
  \/ SetImapServer
  \/ SendEmail
  \/ SendEmailWithAttachments
  \/ Return

\* an SMTP session driven through its methods
SpecSMTP == InitSMTP /\ [][NextSMTP]_vars

\* ---------------------------------------------------------------------
\* normalize_email applied to the parsed messages of bounded size
\* ---------------------------------------------------------------------
\* number of parts msg.walk() yields after the root of a multipart message
MaxParts == 2

Payload == <<"a", "L", "T", "X", "b">>

TextPart == [content_type |-> "text/plain", disposition |-> None, filename |-> None, payload |-> Payload]

HtmlPart == [content_type |-> "text/html", disposition |-> None, filename |-> None, payload |-> Payload]

ContainerPart == [content_type |-> "multipart/alternative", disposition |-> None, filename |-> None, payload |-> <<>>]

NamedAttachment == [content_type |-> "application/pdf", disposition |-> "attachment", filename |-> "plain", payload |-> <<"a", "b", "a">>]

UnknownCharsetAttachment == [NamedAttachment EXCEPT !.filename = "unknown_charset"]

UnnamedAttachment == [NamedAttachment EXCEPT !.filename = None]

\* a second text/plain part, a text/plain part without content, a part with
\* a filename and no Content-Disposition, an attachment exactly two bytes
\* long and one without content
OtherTextPart == [TextPart EXCEPT !.payload = <<"b", "a">>]

EmptyTextPart == [TextPart EXCEPT !.payload = <<>>]

NamedTextPart == [TextPart EXCEPT !.filename = "plain", !.payload = <<"b">>]

SmallAttachment == [NamedAttachment EXCEPT !.content_type = "image/png", !.payload = <<"a", "b">>]

EmptyAttachment == [NamedAttachment EXCEPT !.content_type = "application/zip", !.payload = <<>>]

Parts ==
  {TextPart, OtherTextPart, EmptyTextPart, HtmlPart, ContainerPart, NamedAttachment, UnknownCharsetAttachment,
   UnnamedAttachment, NamedTextPart, SmallAttachment, EmptyAttachment}

SinglePartMessages ==
  {[from |-> f, to |-> t, cc |-> <<>>, bcc |-> <<>>, date |-> d, subject |-> sb, multipart |-> FALSE, content_type |-> ct, payload |-> pl, parts |-> <<>>] :
     f \in {"absent", "named", "raw8bit"}, t \in {<<>>, <<"named", "bare">>}, d \in {"valid", "garbage"},
     sb \in {"absent", "plain", "encoded_badbytes", "unknown_charset", "bad_base64"},
     ct \in {"text/plain", "text/html"}, pl \in {<<>>, Payload}}

MultipartMessages ==
  {[from |-> f, to |-> <<"bare">>, cc |-> <<>>, bcc |-> <<>>, date |-> "valid", subject |-> sb, multipart |-> TRUE, content_type |-> "multipart/mixed", payload |-> <<>>, parts |-> ps] :
     f \in {"absent", "named"}, sb \in {"plain", "unknown_charset"},
     ps \in UNION {[1..n -> Parts] : n \in 0..MaxParts}}

\* normalize_email(msg, uid, max_body_bytes, max_attachment_bytes) on the
\* message norm_in; norm_out keeps the two limits with what the call gave
Normalize ==
  \E max_body_bytes \in {2, MAX_BODY_BYTES}, max_attachment_bytes \in {2, MAX_ATTACHMENT_BYTES} :
    /\ norm_out = <<>>
    /\ managers = NoManagers
    /\ store = EmptyStore
    /\ procs = NoProcs
    /\ norm_out' = <<[max_body_bytes |-> max_body_bytes, max_attachment_bytes |-> max_attachment_bytes]
                      @@ normalize_email(norm_in, 1, max_body_bytes, max_attachment_bytes)>>
    /\ UNCHANGED <<imap_connection, imap_objs, smtp_connection, smtp_objs, environ, accounts_file, calls, ret, conn, sender, norm_in, managers, store, procs>>

InitNorm ==
  /\ imap_connection = 0
  /\ imap_objs = [i \in 1..MaxIMAPObjs |-> IMAPConnection]
  /\ smtp_connection = 0
  /\ smtp_objs = [i \in 1..MaxSMTPObjs |-> SMTPConnection]
  /\ environ = NoEnv
  /\ accounts_file = EmptyDoc
  /\ calls = <<>>
  /\ ret = NoCall
  /\ conn = IMAPConnection
  /\ sender = SMTPConnection
  /\ norm_in \in SinglePartMessages \cup MultipartMessages
  /\ norm_out = <<>>
  /\ managers = NoManagers
  /\ store = EmptyStore
  /\ procs = NoProcs

NextNorm == Normalize

\* the normalizer as a function of the message
SpecNorm == InitNorm /\ [][NextNorm]_vars

\* =====================================================================
\* _auto_connect as a function of the arguments, the environment and the
\* accounts file
\* =====================================================================

\* a profile stored without a password
PartialProfile == [name |-> "partial", imap_server |-> "imap.part.io", smtp_server |-> "smtp.part.io", username |-> "me@part.io", password |-> None, imap_port |-> 993, smtp_port |-> 587, imap_ssl |-> TRUE, smtp_tls |-> TRUE]

CredDocuments ==
  {EmptyDoc,
   [profiles |-> <<HomeProfile, PartialProfile>>, default_profile |-> None],
   [profiles |-> <<HomeProfile, WorkProfile, PartialProfile>>, default_profile |-> "work"]}

CredEnvironments ==
  {[IMAP_USERNAME |-> iu, IMAP_PASSWORD |-> ip, SMTP_USERNAME |-> su, SMTP_PASSWORD |-> sp, config_ok |-> ok] :
     iu \in {None, "me@env.net"}, ip \in {None, "pw.env"}, su \in {None, "me@smtp.net"}, sp \in {None, "pw.smtp"}, ok \in BOOLEAN}

\* the arguments _auto_connect reads; it reads none when the slot holds a
\* session
CredArgs(slot) ==
  IF slot # 0 THEN {NoConnArgs}
  ELSE {[NoConnArgs EXCEPT !.account = a, !.server = s, !.username = u, !.password = p] :
          a \in {None, "home", "partial", "nosuch"}, s \in {None, "host.arg.com"}, u \in {None, "me@arg.com"}, p \in {None, "pw.arg"}}

\* what a call of _auto_connect gave: the credentials it settled on, whether
\* it found a session in the slot, whether it opened one, and the session it
\* returned (<<>> for None)
CredRet(cmd, args, found, c, ac) ==
  [cmd |-> cmd, args |-> args, exc |-> ac.exc, msg |-> ac.msg,
   val |-> [cred |-> c, found |-> found, auto |-> ac.auto,
            session |-> IF ac.conn # 0 THEN <<ac.w.objs[ac.conn]>> ELSE <<>>]]

ImapAutoConnect ==
  \E args \in CredArgs(imap_connection), fail \in {"none", "login"} :
    With(imap_auto_connect(args, ImapWorld, environ, accounts_file, fail), LAMBDA ac :
      /\ ret.cmd = None
      /\ imap_connection' = ac.w.slot
      /\ imap_objs' = Collect(ac.w, IMAPConnection)
      /\ calls' = ac.calls
      /\ ret' = CredRet("imap_auto_connect", args, imap_connection # 0, imap_credentials(args, environ, accounts_file), ac)
      /\ UNCHANGED <<smtp_connection, smtp_objs, environ, accounts_file, conn, sender, norm_in, norm_out, managers, store, procs>>)

SmtpAutoConnect ==
  \E args \in CredArgs(smtp_connection), fail \in {"none", "login"} :
    With(smtp_auto_connect(args, SmtpWorld, environ, accounts_file, fail), LAMBDA ac :
      /\ ret.cmd = None
      /\ smtp_connection' = ac.w.slot
      /\ smtp_objs' = Collect(ac.w, SMTPConnection)
      /\ calls' = ac.calls
      /\ ret' = CredRet("smtp_auto_connect", args, smtp_connection # 0, smtp_credentials(args, environ, accounts_file), ac)
      /\ UNCHANGED <<imap_connection, imap_objs, environ, accounts_file, conn, sender, norm_in, norm_out, managers, store, procs>>)

\* set_connection(None) in both client modules
ClearConnections ==
  /\ ret.cmd = None
  /\ imap_connection # 0 \/ smtp_connection # 0
  /\ imap_connection' = 0
  /\ imap_objs' = [i \in 1..MaxIMAPObjs |-> IMAPConnection]
  /\ smtp_connection' = 0
  /\ smtp_objs' = [i \in 1..MaxSMTPObjs |-> SMTPConnection]
  /\ UNCHANGED <<environ, accounts_file, calls, ret, conn, sender, norm_in, norm_out, managers, store, procs>>

InitCred ==
  /\ imap_connection = 0
  /\ imap_objs = [i \in 1..MaxIMAPObjs |-> IMAPConnection]
  /\ smtp_connection = 0
  /\ smtp_objs = [i \in 1..MaxSMTPObjs |-> SMTPConnection]
  /\ environ \in CredEnvironments
  /\ accounts_file \in CredDocuments
  /\ calls = <<>>
  /\ ret = NoCall
  /\ conn = IMAPConnection
  /\ sender = SMTPConnection
  /\ norm_in = None
  /\ norm_out = <<>>
  /\ managers = NoManagers
  /\ store = EmptyStore
  /\ procs = NoProcs

NextCred ==
  \/ ImapAutoConnect
  \/ SmtpAutoConnect
  \/ ClearConnections
  \/ Return

\* credential resolution for every combination of sources
SpecCred == InitCred /\ [][NextCred]_vars

\* =====================================================================
\* delete and move on an account that holds messages
\* =====================================================================
\* the session after connect and select_mailbox("INBOX")
SelectedSession == [IMAPConnection EXCEPT !.client = "IMAPClient", !.server = "imap.work.com", !.username = "me@work.com", !.current_mailbox = "INBOX"]

\* INBOX holds the messages 1, 2 and 3, Archive the messages 1 and 3; message
\* 3 of a mailbox may carry the \Deleted flag (set by another client, or by a
\* delete whose expunge failed)
StoredAccounts ==
  {[EmptyStore EXCEPT !["INBOX"] = [msgs |-> {1, 2, 3}, deleted |-> d, copies |-> {}],
                      !["Archive"] = [msgs |-> {1, 3}, deleted |-> d, copies |-> {}]] : d \in {{}, {3}}}

InitStore ==
  /\ imap_connection = 0
  /\ imap_objs = [i \in 1..MaxIMAPObjs |-> IMAPConnection]
  /\ smtp_connection = 0
  /\ smtp_objs = [i \in 1..MaxSMTPObjs |-> SMTPConnection]
  /\ environ = NoEnv
  /\ accounts_file = EmptyDoc
  /\ calls = <<>>
  /\ ret = NoCall
  /\ conn = SelectedSession
  /\ sender = SMTPConnection
  /\ norm_in = None
  /\ norm_out = <<>>
  /\ managers = NoManagers
  /\ store \in StoredAccounts
  /\ procs = NoProcs

NextStore ==
  \/ SelectMailbox
  \/ Delete
  \/ Move
  \/ Return

\* a connected session deleting and moving the messages of its account
SpecStore == InitStore /\ [][NextStore]_vars

\* =====================================================================
\* search commands of one process running in threads
\* =====================================================================
\* A command is at "idle", then reads the slot ("connect" when it was empty,
\* else it has borrowed the session), selects INBOX if need be ("select"),
\* searches ("search"), runs its cleanup block ("teardown": the disconnect,
\* "clear": set_connection(None)) and returns ("done").  Nothing orders the
\* steps of different threads.

\* the slot holds nothing, or the session of an earlier connect command
PersistentSession == [IMAPConnection EXCEPT !.client = "IMAPClient", !.server = "imap.work.com", !.username = "me@work.com"]

\* an object no thread and not the slot refers to
FreeObj == CHOOSE i \in 1..MaxIMAPObjs : i # imap_connection /\ \A t \in Threads : procs[t].conn # i

RaceStep(t, p, slot, objs) ==
  /\ procs' = [procs EXCEPT ![t] = p]
  /\ imap_connection' = slot
  /\ imap_objs' = objs
  /\ UNCHANGED <<smtp_connection, smtp_objs, environ, accounts_file, calls, ret, conn, sender, norm_in, norm_out, managers, store>>

\* conn = get_connection(); if conn: return conn, False
RaceAcquire ==
  \E t \in Threads :
    /\ procs[t].pc = "idle"
    /\ RaceStep(t, IF imap_connection # 0 THEN [Idle EXCEPT !.pc = "select", !.conn = imap_connection] ELSE [Idle EXCEPT !.pc = "connect"],
                imap_connection, imap_objs)

\* conn = IMAPConnection(); conn.connect(...); set_connection(conn)
RaceConnect ==
  \E t \in Threads, fail \in {"none", "login"} :
    /\ procs[t].pc = "connect"
    /\ With(IMAPConnection_connect(IMAPConnection, "imap.arg.com", "me@arg.com", "pw.arg", DEFAULT_IMAP_PORT, TRUE, fail), LAMBDA r :
         IF r.exc # None
         THEN RaceStep(t, [Idle EXCEPT !.pc = "done", !.result = "Auto-connect failed"], imap_connection, imap_objs)
         ELSE RaceStep(t, [Idle EXCEPT !.pc = "select", !.conn = FreeObj, !.auto = TRUE], FreeObj, [imap_objs EXCEPT ![FreeObj] = r.self]))

\* if not conn.current_mailbox: conn.select_mailbox('INBOX')
RaceSelect ==
  \E t \in Threads, fail \in {"none", "select_folder"} :
    /\ procs[t].pc = "select"
    /\ With(SelectInbox(imap_objs[procs[t].conn], fail), LAMBDA r :
         RaceStep(t, IF r.exc # None THEN [procs[t] EXCEPT !.pc = "teardown", !.result = ErrorOf(r, FALSE)] ELSE [procs[t] EXCEPT !.pc = "search"],
                  imap_connection, [imap_objs EXCEPT ![procs[t].conn] = r.self]))

\* uids = conn.search(criteria)
RaceSearch ==
  \E t \in Threads, fail \in {"none", "search"} :
    /\ procs[t].pc = "search"
    /\ With(IMAPConnection_search(imap_objs[procs[t].conn], "ALL", fail), LAMBDA r :
         RaceStep(t, [procs[t] EXCEPT !.pc = "teardown", !.result = IF r.exc # None THEN ErrorOf(r, FALSE) ELSE "success"],
                  imap_connection, imap_objs))

\* if auto_connected: conn.disconnect()
RaceDisconnect ==
  \E t \in Threads :
    /\ procs[t].pc = "teardown"
    /\ RaceStep(t, [procs[t] EXCEPT !.pc = IF procs[t].auto THEN "clear" ELSE "done"], imap_connection,
                [imap_objs EXCEPT ![procs[t].conn] = CleanupDisconnect(@, procs[t].auto)])

\* set_connection(None)
RaceClear ==
  \E t \in Threads :
    /\ procs[t].pc = "clear"
    /\ RaceStep(t, [procs[t] EXCEPT !.pc = "done"], 0, imap_objs)

\* the command returns; objects nothing refers to any more are as good as new
RaceReturn ==
  \E t \in Threads :
    /\ procs[t].pc = "done"
    /\ RaceStep(t, Idle, imap_connection,
                [i \in DOMAIN imap_objs |-> IF i = imap_connection \/ \E u \in Threads \ {t} : procs[u].conn = i THEN imap_objs[i] ELSE IMAPConnection])

InitRace ==
  /\ imap_connection \in {0, 1}
  /\ imap_objs = [i \in 1..MaxIMAPObjs |-> IF i = imap_connection THEN PersistentSession ELSE IMAPConnection]
  /\ smtp_connection = 0
  /\ smtp_objs = [i \in 1..MaxSMTPObjs |-> SMTPConnection]
  /\ environ = NoEnv
  /\ accounts_file = EmptyDoc
  /\ calls = <<>>
  /\ ret = NoCall
  /\ conn = IMAPConnection
  /\ sender = SMTPConnection
  /\ norm_in = None
  /\ norm_out = <<>>
  /\ managers = NoManagers
  /\ store = EmptyStore
  /\ procs = NoProcs

NextRace ==
  \/ RaceAcquire
  \/ RaceConnect
  \/ RaceSelect
  \/ RaceSearch
  \/ RaceDisconnect
  \/ RaceClear
  \/ RaceReturn

\* two search commands of one process, interleaved step by step
SpecRace == InitRace /\ [][NextRace]_vars

\* =====================================================================
\* The profile store: managers of one file, used in turn
\* =====================================================================
\* a profile document of an older layout (keys missing), and one that
\* cannot be loaded
LegacyDoc == [profiles |-> <<[name |-> "home", username |-> "me@home.org", password |-> "pw.home"]>>, default_profile |-> "home"]

BrokenDoc == [profiles |-> <<[username |-> "me@home.org"]>>, default_profile |-> None]

ConfigFiles == Documents \cup {LegacyDoc, BrokenDoc}

NewProfiles == {HomeProfile, WorkProfile, [WorkProfile EXCEPT !.imap_server = None, !.password = "pw.new"]}

ProfileNames == {"home", "work"}

SaveFails == {"none", "save"}

\* one method call on manager i
ManagerStep(i, cmd, name, r) ==
  /\ ret.cmd = None
  /\ managers' = [managers EXCEPT ![i] = r.self]
  /\ accounts_file' = r.file
  /\ calls' = r.calls
  /\ ret' = MethodRet(cmd, <<i, name>>, r)
  /\ UNCHANGED <<imap_connection, imap_objs, smtp_connection, smtp_objs, environ, conn, sender, norm_in, norm_out, store, procs>>

\* manager = ProfileManager()
NewManager ==
  \E i \in Managers :
    ManagerStep(i, "ProfileManager", None, Saved(ProfileManager(accounts_file), accounts_file, Ok(None, <<"load">>, None)))

AddProfile ==
  \E i \in Managers, profile \in NewProfiles, fail \in SaveFails :
    /\ managers[i].constructed
    /\ ManagerStep(i, "add_profile", profile.name, ProfileManager_add_profile(managers[i], accounts_file, profile, fail))

RemoveProfile ==
  \E i \in Managers, name \in ProfileNames, fail \in SaveFails :
    /\ managers[i].constructed
    /\ ManagerStep(i, "remove_profile", name, ProfileManager_remove_profile(managers[i], accounts_file, name, fail))

SetDefault ==
  \E i \in Managers, name \in ProfileNames, fail \in SaveFails :
    /\ managers[i].constructed
    /\ ManagerStep(i, "set_default", name, ProfileManager_set_default(managers[i], accounts_file, name, fail))

InitConfig ==
  /\ imap_connection = 0
  /\ imap_objs = [i \in 1..MaxIMAPObjs |-> IMAPConnection]
  /\ smtp_connection = 0
  /\ smtp_objs = [i \in 1..MaxSMTPObjs |-> SMTPConnection]
  /\ environ = NoEnv
  /\ accounts_file \in ConfigFiles
  /\ calls = <<>>
  /\ ret = NoCall
  /\ conn = IMAPConnection
  /\ sender = SMTPConnection
  /\ norm_in = None
  /\ norm_out = <<>>
  /\ managers = NoManagers
  /\ store = EmptyStore
  /\ procs = NoProcs

NextConfig ==
  \/ NewManager
  \/ AddProfile
  \/ RemoveProfile
  \/ SetDefault
  \/ Return

\* profile managers constructed and used one call at a time
SpecConfig == InitConfig /\ [][NextConfig]_vars

\* =====================================================================
\* Properties
\* =====================================================================
ImapOpCmds == {"list_mailboxes", "select_mailbox", "search", "fetch", "mark_read", "mark_unread", "delete", "move"}

SmtpSendCmds == {"send", "send_html", "send_with_attachment"}

\* C1, as the code has it (Spec): a command that opened a session itself
\* (the slot was empty) has logged it out and emptied the slot when it
\* returns, whether its operation succeeded or failed; the one exception is
\* a successful select-mailbox, which leaves the session it opened connected
\* and in the slot.
C1_TeardownExceptSelect ==
  ret.auto_connected =>
    IF ret.cmd = "select_mailbox" /\ ret.status = "success"
    THEN imap_connection # 0 /\ imap_objs[imap_connection].client # None /\ ~Contains(calls, "logout")
    ELSE IF ret.cmd \in ImapOpCmds
    THEN imap_connection = 0 /\ Last(calls) = "logout"
    ELSE ret.cmd \in SmtpSendCmds /\ smtp_connection = 0 /\ Contains(calls, "quit") /\ Last(calls) \in {"quit", "close"}

\* C1 as stated: every command that opened a session itself leaves the slot
\* of its protocol empty.
C1_AlwaysTornDown ==
  ret.auto_connected =>
    /\ ret.cmd \in ImapOpCmds => imap_connection = 0
    /\ ret.cmd \in SmtpSendCmds => smtp_connection = 0

\* a delete that opened its own session, failed on the server and tore the
\* session down
C1_Witness ==
  /\ ret.auto_connected
  /\ ret.cmd = "delete"
  /\ ret.error = "Failed"
  /\ imap_connection = 0
  /\ Last(calls) = "logout"

\* C2 (Spec): while a connected session is in the IMAP slot, every step other
\* than the connect and disconnect commands (the eight operation commands,
\* succeeding or failing, among them) leaves that same session in the slot,
\* still connected to the same server as the same user, and issues no logout;
\* an operation command does not treat the session as one to tear down.
C2_ExplicitSessionPersists ==
  [][(/\ imap_connection # 0
      /\ imap_objs[imap_connection].client # None
      /\ ret'.cmd \notin {"connect", "disconnect"})
     => (/\ imap_connection' = imap_connection
         /\ imap_objs'[imap_connection].client # None
         /\ imap_objs'[imap_connection].server = imap_objs[imap_connection].server
         /\ imap_objs'[imap_connection].username = imap_objs[imap_connection].username
         /\ ~Contains(calls', "logout")
         /\ ret'.cmd \in ImapOpCmds => ~ret'.auto_connected)]_vars

\* a delete that failed on the server while a session was in the slot: the
\* session is still there and connected
C2_Witness ==
  /\ ret.cmd = "delete"
  /\ ret.error = "Failed"
  /\ ~ret.auto_connected
  /\ imap_connection # 0
  /\ imap_objs[imap_connection].client # None
  /\ Contains(calls, "expunge")

OpMethods == {"select_mailbox", "mark_read", "mark_unread", "delete", "move", "append_to_mailbox", "find_sent_folder", "search", "fetch_email", "list_mailboxes"}

\* C3 (SpecIMAP): on a session that has no client (a fresh one in
\* particular), each of the ten operations raises RuntimeError "Not connected
\* to IMAP server", issues no library call and leaves the session as it was.
C3_NotConnected ==
  [][(conn.client = None /\ ret'.cmd \in OpMethods)
     => (/\ ret'.exc = "RuntimeError"
         /\ ret'.msg = NotConnectedIMAP
         /\ calls' = <<>>
         /\ conn' = conn)]_vars

\* move called on the fresh session raised the not-connected error
C3_Witness ==
  /\ conn = IMAPConnection
  /\ ret.cmd = "move"
  /\ ret.exc = "RuntimeError"
  /\ ret.msg = NotConnectedIMAP
  /\ calls = <<>>

\* the argument maps with sandbox set and the required arguments present
SandboxArgs ==
  {[message_ids |-> ids, target_mailbox |-> "Archive", sandbox |-> TRUE] @@ a :
     ids \in {<<"1">>, <<"1", "x">>}, a \in AllConnArgs("imap.arg.com")}

IsSandbox(d, cmd, marker) ==
  /\ d.ret = Returned(cmd, "sandbox", marker, None, FALSE)
  /\ d.calls = <<>>
  /\ d.w = ImapWorld

\* C4 (Spec): in every reachable state of the process, with or without a
\* session in the slot, each of mark-read, mark-unread, delete and move
\* called with sandbox set and its required arguments present returns status
\* "sandbox" with its would_<verb> marker, issues no library call (no
\* connect, no select, no flag or copy operation) and leaves the slot and
\* the session as they were, whatever connection arguments it is given.
C4_SandboxIsInert ==
  \A args \in SandboxArgs, fail \in {"none", "IMAPClient", "select_folder"} :
    /\ IsSandbox(imap_mark_read(args, ImapWorld, environ, accounts_file, fail), "mark_read", "would_mark_read")
    /\ IsSandbox(imap_mark_unread(args, ImapWorld, environ, accounts_file, fail), "mark_unread", "would_mark_unread")
    /\ IsSandbox(imap_delete(args, ImapWorld, environ, accounts_file, fail), "delete", "would_delete")
    /\ IsSandbox(imap_move(args, ImapWorld, environ, accounts_file, fail), "move", "would_move")

\* a sandboxed move returned while a session was in the slot
C4_Witness ==
  /\ ret.cmd = "move"
  /\ ret.status = "sandbox"
  /\ ret.result = "would_move"
  /\ calls = <<>>
  /\ imap_connection # 0

\* C5 as stated (Spec): a command that answers with a validation error (a
\* missing required argument, a message id that is no integer) has opened
\* no connection and issued no library call.
C5_ValidationBeforeNetwork ==
  ret.error \in {"Missing required argument", "Invalid message ID"} => calls = <<>> /\ ~ret.auto_connected

\* C6 as stated (Spec): every command returns exactly one outcome (status
\* "success" or "sandbox" with a result, or an error) and lets no exception
\* escape.
C6_ExactlyOneOutcome ==
  ret.cmd \in ImapOpCmds \cup SmtpSendCmds \cup {"connect", "disconnect"} =>
    /\ ret.raised = None
    /\ \/ ret.status \in {"success", "sandbox"} /\ ret.result # None /\ ret.error = None
       \/ ret.status = None /\ ret.error # None

SendMethods == {"send_email", "send_email_with_attachments"}

\* C7 (SpecSMTP): a send whose transmit succeeded returns the sent result
\* and raises nothing, whichever step of the sent-folder echo fails.
C7_EchoNeverFailsSend ==
  (ret.cmd \in SendMethods /\ Contains(calls, "sendmail") /\ ret.args.fail # "sendmail")
    => (ret.exc = None /\ ret.val.sent /\ ret.val.to = ret.args.to)

\* a send whose echo failed at the append returned normally
C7_Witness ==
  /\ ret.cmd = "send_email"
  /\ ret.args.eo.fail = "append"
  /\ Contains(calls, "echo:append")
  /\ ret.exc = None

\* C8 (SpecSMTP): send_email_with_attachments given a list in which some
\* attachment, at any position, is missing or oversized raises (on a connected
\* session FileNotFoundError or ValueError) and issues no library call:
\* neither the transmit nor the echo.
C8_AllValidatedFirst ==
  (ret.cmd = "send_email_with_attachments" /\ \E i \in 1..Len(ret.args.attachments) : AttachmentError(ret.args.attachments[i]) # None)
    => (/\ ret.exc # None
        /\ calls = <<>>
        /\ ret.msg # NotConnectedSMTP => ret.exc \in {"FileNotFoundError", "ValueError"})

\* an oversized second attachment after a good first one: nothing was sent
C8_Witness ==
  /\ ret.cmd = "send_email_with_attachments"
  /\ ret.args.attachments = <<GoodFile, BigFile>>
  /\ ret.exc = "ValueError"
  /\ calls = <<>>

\* C9 as stated (SpecNorm): normalize_email raises for no parsed message.
C9_NeverRaises ==
  \A i \in 1..Len(norm_out) : norm_out[i].exc = None

\* C10 (SpecIMAP): delete(uids) on a connected session flags the uids deleted
\* and then expunges, once each and in that order; when a call fails the
\* log is a prefix of that sequence, so expunge never comes first or alone.
C10_DeleteOrder ==
  (ret.cmd = "delete" /\ ret.msg # NotConnectedIMAP) =>
    LET full == <<Call("set_flags:DELETED", ret.args[1]), "expunge">>
    IN IF ret.exc = None THEN calls = full ELSE calls \in {SubSeq(full, 1, 1), full}

\* delete([2, 1]) returned on a connected session
C10_Witness ==
  /\ ret.cmd = "delete"
  /\ ret.exc = None
  /\ ret.args[1] = <<2, 1>>
  /\ calls = <<Call("set_flags:DELETED", <<2, 1>>), "expunge">>

\* C11 (SpecIMAP): move(uids, target) on a connected session copies the
\* uids to the target, then flags them deleted in the source, then expunges,
\* once each and in that order; when a call fails the log is a non-empty
\* prefix of that sequence, so nothing is flagged or expunged before the
\* copy was issued.
C11_MoveOrder ==
  (ret.cmd = "move" /\ ret.msg # NotConnectedIMAP) =>
    LET full == <<Call("copy:" \o ret.args[2], ret.args[1]), Call("set_flags:DELETED", ret.args[1]), "expunge">>
    IN IF ret.exc = None THEN calls = full
       ELSE \E n \in 1..3 : calls = SubSeq(full, 1, n)

\* move([2, 1], "Trash") returned on a connected session
C11_Witness ==
  /\ ret.cmd = "move"
  /\ ret.exc = None
  /\ ret.args = <<(<<2, 1>>), "Trash">>
  /\ calls = <<"copy:Trash:<<2, 1>>", "set_flags:DELETED:<<2, 1>>", "expunge">>

\* C12 (SpecIMAP): disconnect() raises nothing, whether or not logout
\* fails, and leaves client, server, username and current_mailbox all
\* cleared; on a session that has a client it issues one logout, on a
\* session without one it issues no call and changes nothing.
C12_DisconnectClears ==
  [][ret'.cmd = "disconnect"
     => (/\ ret'.exc = None
         /\ conn' = IMAPConnection
         /\ conn.client # None => calls' = <<"logout">>
         /\ conn.client = None => (conn' = conn /\ calls' = <<>>))]_vars

\* disconnect returned after a failing logout, the session is cleared
C12_Witness ==
  /\ ret.cmd = "disconnect"
  /\ ret.args[1]
  /\ calls = <<"logout">>
  /\ ret.exc = None
  /\ conn = IMAPConnection

\* C13 (SpecIMAP): connect authenticates with PLAIN only after login failed
\* with an authentication error (the message test of connect), once, and
\* directly after that login; when PLAIN fails too, the one RuntimeError
\* "Authentication failed ..." is raised; any other login failure is raised
\* as it came, with no PLAIN attempt; server and username are assigned when
\* connect returns and are left as they were when it raises.
C13_PlainFallback ==
  [][ret'.cmd = "connect"
     => LET fail == ret'.args[3]
        IN /\ Count(calls', "authenticate") <= 1
           /\ Contains(calls', "authenticate") <=> fail \in {"login_auth", "login_auth_plain"}
           /\ Contains(calls', "authenticate") => calls' = <<"IMAPClient", "login", "authenticate">>
           /\ fail = "login_auth_plain" => (ret'.exc = "RuntimeError" /\ ret'.msg = "Authentication failed")
           /\ fail = "login" => (ret'.exc = "Exception" /\ ret'.msg = "lib" /\ calls' = <<"IMAPClient", "login">>)
           /\ ret'.exc # None => (fail # "none" /\ conn'.server = conn.server /\ conn'.username = conn.username)
           /\ ret'.exc = None => (fail \in {"none", "login_auth"} /\ conn'.server = ret'.args[1] /\ conn'.username = ret'.args[2])]_vars

\* login and PLAIN both failed on a fresh session: one RuntimeError, no
\* server or username recorded
C13_Witness ==
  /\ ret.cmd = "connect"
  /\ ret.args[3] = "login_auth_plain"
  /\ ret.exc = "RuntimeError"
  /\ calls = <<"IMAPClient", "login", "authenticate">>
  /\ conn.client # None
  /\ conn.server = None
  /\ conn.username = None

\* the first element of s that is not None (None when there is none)
First(s) ==
  IF \E i \in 1..Len(s) : s[i] # None
  THEN s[CHOOSE i \in 1..Len(s) : s[i] # None /\ \A j \in 1..(i-1) : s[j] = None]
  ELSE None

\* _auto_connect has run with an empty slot
CredCall == ret.cmd \in {"imap_auto_connect", "smtp_auto_connect"} /\ ~ret.val.found

\* the named profile of the call (<<>> when none is named, none is found or
\* the accounts file cannot be read), the default profile, and what the
\* environment offers to the protocol of the call
Named == IF ret.args.account # None /\ environ.config_ok THEN get_profile(accounts_file, ret.args.account) ELSE <<>>

UnknownAccount == ret.args.account # None /\ environ.config_ok /\ Named = <<>>

Default == IF environ.config_ok THEN get_default(accounts_file) ELSE <<>>

ServerOf(p) == IF ret.cmd = "imap_auto_connect" THEN p.imap_server ELSE p.smtp_server

EnvUser == IF ret.cmd = "imap_auto_connect" THEN environ.IMAP_USERNAME ELSE First(<<environ.SMTP_USERNAME, environ.IMAP_USERNAME>>)

EnvPass == IF ret.cmd = "imap_auto_connect" THEN environ.IMAP_PASSWORD ELSE First(<<environ.SMTP_PASSWORD, environ.IMAP_PASSWORD>>)

Triple(server, username, password) == [server |-> server, username |-> username, password |-> password]

Resolved == Triple(ret.val.cred.server, ret.val.cred.username, ret.val.cred.password)

MailboxCmds == {"search", "fetch", "mark_read", "mark_unread", "delete", "move"}

SelectCalls == {"select_folder:" \o m : m \in {"INBOX", "Sent", "Archive"}}

\* C16 as stated (Spec): a search, fetch, mark-read, mark-unread, delete or
\* move that succeeds has selected the mailbox named by its `mailbox`
\* argument (INBOX when absent), exactly once and before its operation, and
\* reports that mailbox in its result.
C16_SelectsNamedMailbox ==
  (ret.cmd \in MailboxCmds /\ ret.status = "success") =>
    LET mailbox == IF ret.args_mailbox = None THEN "INBOX" ELSE ret.args_mailbox
    IN /\ SelectSeq(calls, LAMBDA c : c \in SelectCalls) = <<"select_folder:" \o mailbox>>
       /\ IndexOf(calls, "select_folder:" \o mailbox) < Len(calls)
       /\ ret.mailbox = mailbox

\* the leaf parts of a multipart message, and those of them that are treated
\* as attachments: a Content-Disposition attachment marker or a filename
Leaf(part) == part.content_type \notin {"multipart/mixed", "multipart/alternative"}

AttachmentPart(part) == Leaf(part) /\ (part.disposition = "attachment" \/ part.filename # None)

\* the attachment parts an entry is written for: named and not empty
EntryParts(msg) == SelectSeq(msg.parts, LAMBDA part : AttachmentPart(part) /\ part.filename # None /\ part.payload # <<>>)

\* a call of normalize_email on a multipart message has returned a record
NormalizedMultipart == norm_out # <<>> /\ norm_out[1].exc = None /\ norm_in.multipart

\* C17 (SpecNorm): every attachment entry of a returned record has size
\* min(length of the decoded payload, max_attachment_bytes) and truncated
\* exactly when that length exceeds max_attachment_bytes.
C17_AttachmentSize ==
  NormalizedMultipart =>
    LET entries == norm_out[1].val.body.attachments
        max_attachment_bytes == norm_out[1].max_attachment_bytes
        from == EntryParts(norm_in)
    IN /\ Len(entries) = Len(from)
       /\ \A i \in 1..Len(entries) :
            LET n == Len(from[i].payload)
            IN /\ entries[i].size = IF n < max_attachment_bytes THEN n ELSE max_attachment_bytes
               /\ entries[i].truncated = (n > max_attachment_bytes)

\* an attachment of three bytes and one of two, normalized with a limit of
\* two: the first entry is truncated, the second is not, both have size 2
C17_Witness ==
  /\ NormalizedMultipart
  /\ norm_in.parts = <<NamedAttachment, SmallAttachment>>
  /\ norm_out[1].max_attachment_bytes = 2
  /\ norm_out[1].val.body.attachments[1].truncated
  /\ ~norm_out[1].val.body.attachments[2].truncated
  /\ norm_out[1].val.body.attachments[2].size = 2

\* the payloads of the non-attachment leaves of a multipart message with the
\* given content type, in traversal order; for a single-part message its own
\* payload, which is HTML for text/html and text for every other type
BodyPayloads(msg, content_type) ==
  IF msg.multipart
  THEN LET from == SelectSeq(msg.parts, LAMBDA part : Leaf(part) /\ ~AttachmentPart(part) /\ part.content_type = content_type)
       IN [i \in 1..Len(from) |-> from[i].payload]
  ELSE IF (msg.content_type = "text/html") = (content_type = "text/html") THEN <<msg.payload>> ELSE <<>>

\* the text of the last payload of a sequence cut to max_body_bytes
\* characters, empty when there is none
LastContent(payloads, max_body_bytes) ==
  IF payloads = <<>> THEN <<>> ELSE Prefix(DecodeUtf8Ignore(payloads[Len(payloads)]), max_body_bytes)

NonEmpty(payloads) == SelectSeq(payloads, LAMBDA payload : payload # <<>>)

\* C18 (SpecNorm): body.text and body.html of a returned record, for a
\* single-part or a multipart message, are each at most max_body_bytes
\* characters long, and exactly max_body_bytes characters long when the
\* decoded part they come from was longer.
C18_BodyLength ==
  (norm_out # <<>> /\ norm_out[1].exc = None) =>
    LET body == norm_out[1].val.body
        max_body_bytes == norm_out[1].max_body_bytes
        Bounded(field, content_type) ==
          LET from == NonEmpty(BodyPayloads(norm_in, content_type))
          IN /\ Len(field) <= max_body_bytes
             /\ (from # <<>> /\ Len(DecodeUtf8Ignore(from[Len(from)])) > max_body_bytes) => Len(field) = max_body_bytes
    IN Bounded(body.text, "text/plain") /\ Bounded(body.html, "text/html")

\* a single-part text message of five bytes, three characters, normalized
\* with a limit of two: body.text is the first two characters
C18_Witness ==
  /\ norm_out # <<>>
  /\ norm_out[1].exc = None
  /\ ~norm_in.multipart
  /\ norm_in.content_type = "text/plain"
  /\ Len(norm_in.payload) = 5
  /\ norm_out[1].max_body_bytes = 2
  /\ norm_out[1].val.body.text = <<"a", "E">>

\* C19 as stated (SpecNorm): in a multipart message every leaf with an
\* attachment marker or a filename yields exactly one attachment entry, the
\* entries are in traversal order, and body.text and body.html come from
\* leaves that are not such parts.
C19_EveryAttachmentPartListed ==
  NormalizedMultipart =>
    LET body == norm_out[1].val.body
        max_body_bytes == norm_out[1].max_body_bytes
        from == SelectSeq(norm_in.parts, AttachmentPart)
    IN /\ Len(body.attachments) = Len(from)
       /\ \A i \in 1..Len(from) : body.attachments[i].content_type = from[i].content_type
       /\ body.text \in {<<>>} \cup {LastContent(<<BodyPayloads(norm_in, "text/plain")[i]>>, max_body_bytes) : i \in 1..Len(BodyPayloads(norm_in, "text/plain"))}
       /\ body.html \in {<<>>} \cup {LastContent(<<BodyPayloads(norm_in, "text/html")[i]>>, max_body_bytes) : i \in 1..Len(BodyPayloads(norm_in, "text/html"))}

\* C20 (SpecNorm): in a multipart message body.text is the content, cut to
\* max_body_bytes characters, of the last non-attachment text/plain leaf that
\* has a non-empty payload, and body.html likewise for text/html; each is
\* empty when there is no such leaf.
C20_LastNonEmptyWins ==
  NormalizedMultipart =>
    LET body == norm_out[1].val.body
        max_body_bytes == norm_out[1].max_body_bytes
    IN /\ body.text = LastContent(NonEmpty(BodyPayloads(norm_in, "text/plain")), max_body_bytes)
       /\ body.html = LastContent(NonEmpty(BodyPayloads(norm_in, "text/html")), max_body_bytes)

\* C20 as stated: body.text is the content of the last non-attachment
\* text/plain leaf and body.html that of the last text/html leaf, whatever
\* their payload.
C20_LastWins ==
  NormalizedMultipart =>
    LET body == norm_out[1].val.body
        max_body_bytes == norm_out[1].max_body_bytes
    IN /\ body.text = LastContent(BodyPayloads(norm_in, "text/plain"), max_body_bytes)
       /\ body.html = LastContent(BodyPayloads(norm_in, "text/html"), max_body_bytes)

\* two text/plain parts: body.text is the second one
C20_Witness ==
  /\ NormalizedMultipart
  /\ norm_in.parts = <<TextPart, OtherTextPart>>
  /\ norm_out[1].val.body.text = <<"b", "a">>

\* find_sent_folder was called on a connected session
FoundSent == ret.cmd = "find_sent_folder" /\ ret.msg # NotConnectedIMAP

\* the least element of a non-empty set of positions
Least(S) == CHOOSE x \in S : \A y \in S : x <= y

\* C21 (SpecIMAP): find_sent_folder on a connected session never raises.
\* For a listing it returns the first candidate (Sent, Sent Items, Gesendet,
\* [Gmail]/Sent Mail, Sent Messages, OUTBOX) that is listed exactly;
\* otherwise, for the first candidate that a listed name equals without
\* regard to case, the first such listed name; otherwise the first listed
\* name that contains "sent" and not "draft" without regard to case;
\* otherwise None.  The result is None or a listed name, and None when the
\* listing call fails.
C21_FindSentFolder ==
  FoundSent =>
    LET names == ret.args[1]
        exact == {i \in 1..Len(sent_folder_names) : \E j \in 1..Len(names) : names[j] = sent_folder_names[i]}
        ci == {i \in 1..Len(sent_folder_names) : \E j \in 1..Len(names) : Lower(names[j]) = Lower(sent_folder_names[i])}
        part == {j \in 1..Len(names) : HasSent(Lower(names[j])) /\ ~HasDraft(Lower(names[j]))}
    IN /\ ret.exc = None
       /\ calls = <<"list_folders">>
       /\ ret.val = None \/ \E j \in 1..Len(names) : names[j] = ret.val
       /\ ret.args[2] = "list_folders" => ret.val = None
       /\ ret.args[2] = "none" =>
            ret.val = IF exact # {} THEN sent_folder_names[Least(exact)]
                      ELSE IF ci # {}
                      THEN names[Least({j \in 1..Len(names) : Lower(names[j]) = Lower(sent_folder_names[Least(ci)])})]
                      ELSE IF part # {} THEN names[Least(part)]
                      ELSE None

\* the listing has Sent Items before Sent: the first candidate, Sent, is
\* returned
C21_Witness ==
  /\ FoundSent
  /\ ret.args = <<<<"Sent Items", "Sent">>, "none">>
  /\ ret.val = "Sent"

\* C22 (SpecIMAP): fetch_email of a uid that is absent from the server's
\* response raises ValueError "not found" after the one fetch call, gives no
\* record, and leaves the session (its client, server, username and selected
\* mailbox) as it was; no other outcome of fetch_email is that error.
C22_NotFound ==
  [][(ret'.cmd = "fetch_email" /\ conn.client # None)
     => (/\ (ret'.args[1] \notin DOMAIN ServerMessages /\ ret'.args[2] = "none")
               => (/\ ret'.exc = "ValueError"
                   /\ ret'.msg = "not found"
                   /\ ret'.val = None
                   /\ calls' = <<"fetch">>
                   /\ conn' = conn)
         /\ ret'.msg = "not found"
               => (ret'.args[1] \notin DOMAIN ServerMessages /\ ret'.args[2] = "none"))]_vars

\* uid 3 is not on the server: a connected session with INBOX selected
\* raised the not-found error and still has INBOX selected
C22_Witness ==
  /\ ret.cmd = "fetch_email"
  /\ ret.args = <<3, "none">>
  /\ ret.exc = "ValueError"
  /\ ret.msg = "not found"
  /\ conn.client # None
  /\ conn.current_mailbox = "INBOX"

\* the IMAP sessions of the command layer that hold a client
LiveSessions(objs) == {i \in DOMAIN objs : objs[i].client # None}

\* C23 (Spec): the connect command logs the session of the slot out before
\* it opens the new one.  Counting from the live sessions before a command,
\* one more for each connection the command layer opens and one less for
\* each logout, there is never more than one live IMAP connection, during
\* a command or after it.
C23_OneLiveConnection ==
  [][/\ \A n \in 0..Len(calls') :
          Cardinality(LiveSessions(imap_objs)) + Count(SubSeq(calls', 1, n), "IMAPClient")
            - Count(SubSeq(calls', 1, n), "logout") <= 1
     /\ Cardinality(LiveSessions(imap_objs')) <= 1
     /\ (ret'.cmd = "connect" /\ LiveSessions(imap_objs) # {} /\ Contains(calls', "IMAPClient"))
          => (calls'[1] = "logout" /\ Count(calls', "logout") = 1)]_vars

\* connect on a process that holds a session: logout, then the new
\* connection, and the slot holds the new session
C23_Witness ==
  /\ ret.cmd = "connect"
  /\ ret.status = "success"
  /\ calls = <<"logout", "IMAPClient", "login">>
  /\ imap_connection # 0
  /\ Cardinality(LiveSessions(imap_objs)) = 1

\* C24 as stated (Spec): the SMTP slot is filled by the SMTP connect command
\* and emptied by the SMTP disconnect command only, and a send command that
\* finds a session in the slot uses it and leaves it there, connected.
C24_SmtpConnectCommand ==
  [][/\ smtp_connection' # smtp_connection => ret'.cmd \in {"smtp_connect", "smtp_disconnect"}
     /\ (smtp_connection # 0 /\ ret'.cmd \in SmtpSendCmds)
          => (/\ smtp_connection' = smtp_connection
              /\ smtp_objs'[smtp_connection].server = smtp_objs[smtp_connection].server
              /\ ~Contains(calls', "SMTP")
              /\ ~Contains(calls', "quit"))]_vars

\* C25 (SpecSMTP): disconnect() raises nothing, whether quit fails, close
\* fails or both, and afterwards the session has no server handle, host,
\* port, username or password.
C25_SmtpDisconnectClears ==
  [][ret'.cmd = "disconnect"
     => (/\ ret'.exc = None
         /\ sender'.server = None
         /\ sender'.host = None
         /\ sender'.port = 0
         /\ sender'.username = None
         /\ sender'.password = None
         /\ sender.server # None => (calls' = IF ret'.args[1] THEN <<"quit", "close">> ELSE <<"quit">>)
         /\ sender.server = None => calls' = <<>>)]_vars

\* quit and close both failed on a connected session: nothing was raised
\* and the session is cleared
C25_Witness ==
  /\ ret.cmd = "disconnect"
  /\ ret.args = <<TRUE, TRUE>>
  /\ calls = <<"quit", "close">>
  /\ ret.exc = None
  /\ sender.server = None
  /\ sender.username = None

\* the addresses of a sequence
Addresses(addrs) == {addrs[i] : i \in 1..Len(addrs)}

\* C26 (SpecSMTP): a send_email or send_email_with_attachments call that
\* transmits hands the server every address of to, cc and bcc and no other,
\* and the message it transmits and echoes has no Bcc header and names the
\* to addresses in To and the cc addresses in Cc only: no bcc address is in
\* a header.
C26_BccNotInHeaders ==
  (ret.cmd \in SendMethods /\ ret.exc = None) =>
    LET message == ret.val.message
    IN /\ Contains(calls, "sendmail")
       /\ Addresses(ret.val.recipients) = Addresses(ret.args.to) \cup Addresses(ret.args.cc) \cup Addresses(ret.args.bcc)
       /\ DOMAIN message = {"From", "To", "Cc", "ReplyTo", "Subject", "content_type", "parts"}
       /\ message.To = ret.args.to
       /\ message.Cc = ret.args.cc
       /\ \A a \in Addresses(ret.args.bcc) :
            a \notin Addresses(message.To) \cup Addresses(message.Cc) \cup {message.From, message.ReplyTo, message.Subject}

\* a message to one address with one cc and two bcc addresses was sent to
\* all four; its Cc header has the cc address only
C26_Witness ==
  /\ ret.cmd = "send_email"
  /\ ret.exc = None
  /\ ret.args.bcc = <<"bcc@x", "bcc@y">>
  /\ ret.val.recipients = <<"to@x", "cc@x", "bcc@x", "bcc@y">>
  /\ ret.val.message.Cc = <<"cc@x">>

\* a send method transmitted and the echo could import the IMAP client
Echoed == ret.cmd \in SendMethods /\ ret.exc = None /\ ret.args.eo.imap_import = "ok"

\* the profiles the echo can read, and the IMAP server of the first that has
\* the session's username (None when there is none)
EchoProfiles == IF ret.args.eo.config_ok THEN accounts_file.profiles ELSE <<>>

MatchedServer ==
  LET matches == SelectSeq(EchoProfiles, LAMBDA p : p.username = sender.username)
  IN IF matches = <<>> THEN None ELSE matches[1].imap_server

\* the echo went to imap_server, or opened no IMAP connection when
\* imap_server is None
EchoWentTo(imap_server) ==
  IF imap_server = None THEN calls = <<"sendmail">>
  ELSE Len(calls) >= 2 /\ calls[2] = "echo:IMAPClient:" \o imap_server

\* the order of the echo's sources with the given server of the default
\* profile
EchoOrder(default_server) ==
  IF sender.imap_server # None THEN sender.imap_server
  ELSE IF MatchedServer # None THEN MatchedServer
  ELSE IF default_server # None THEN default_server
  ELSE DeriveImapServer(sender.host)

C28_RemoveDefault ==
  [][ret'.cmd = "remove_profile" =>
        With(ret'.args[1], LAMBDA i : With(ret'.args[2], LAMBDA name :
          /\ (get_profile(managers[i], name) # <<>> /\ managers[i].default_profile = name) =>
               /\ managers'[i].default_profile = None
               /\ get_default(managers'[i]) = <<>>
               /\ ret'.exc = None =>
                    /\ accounts_file'.default_profile = None
                    /\ get_default(ProfileManager(accounts_file')) = <<>>
          /\ managers[i].default_profile # name =>
               /\ managers'[i].default_profile = managers[i].default_profile
               /\ get_default(managers'[i]) = get_default(managers[i])))]_vars

\* manager 1 removed its default profile "work" and saved; manager 2, loaded
\* from the document before, still names it as the default
C28_Witness ==
  /\ ret.cmd = "remove_profile"
  /\ ret.args = <<1, "work">>
  /\ ret.exc = None
  /\ ret.val = TRUE
  /\ managers[1].default_profile = None
  /\ get_profile(managers[1], "work") = <<>>
  /\ get_profile(managers[1], "home") # <<>>
  /\ accounts_file.default_profile = None
  /\ managers[2].default_profile = "work"

\* ---------------------------------------------------------------------
\* C29: after an add_profile or a set_default that wrote the document
\* (every add_profile that returns, every set_default that returns True), a
\* manager constructed from the document holds the same profiles, in the
\* same order and with the same value in every field, and the same default
\* pointer, as the manager that made the call.
\* ---------------------------------------------------------------------
C29_RoundTrip ==
  (ret.cmd \in {"add_profile", "set_default"} /\ ret.exc = None /\ Contains(calls, "dump")) =>
    /\ ProfileManager(accounts_file).profiles = managers[ret.args[1]].profiles
    /\ ProfileManager(accounts_file).default_profile = managers[ret.args[1]].default_profile
    /\ get_default(ProfileManager(accounts_file)) = get_default(managers[ret.args[1]])

\* one manager, started on an empty document, added "home" and a "work"
\* profile without IMAP server, and made "work" the default
C29_Witness ==
  /\ ret.cmd = "set_default"
  /\ ret.args = <<1, "work">>
  /\ ret.exc = None
  /\ ret.val = TRUE
  /\ ~managers[2].constructed
  /\ managers[1].profiles = <<HomeProfile, [WorkProfile EXCEPT !.imap_server = None, !.password = "pw.new"]>>
  /\ managers[1].default_profile = "work"
  /\ ProfileManager(accounts_file) = managers[1]

\* ---------------------------------------------------------------------
\* C30: add_profile, and remove_profile and set_default of a name the
\* manager holds, replace the document by the calling manager's own view
\* (its profiles, its default pointer), whatever the document held before,
\* unless the write raises; a call that changes nothing in the manager, or
\* whose write raises, leaves the document as it was.  So with two managers
\* the document is the view of the one that wrote last, and what the other
\* wrote before is gone unless the last writer holds it too.
\* ---------------------------------------------------------------------
ViewOf(self) == [profiles |-> self.profiles, default_profile |-> self.default_profile]

Wrote(r) == r.exc = None /\ (r.cmd = "add_profile" \/ r.val = TRUE)

C30_LastWriterWins ==
  [][ret'.cmd \in {"add_profile", "remove_profile", "set_default"} =>
        /\ Wrote(ret') => accounts_file' = ViewOf(managers'[ret'.args[1]])
        /\ Wrote(ret') => \A p \in {accounts_file.profiles[k] : k \in 1..Len(accounts_file.profiles)} :
                            ("name" \in DOMAIN p /\ get_profile(managers'[ret'.args[1]], p.name) = <<>>) => get_profile(accounts_file', p.name) = <<>>
        /\ ~Wrote(ret') => accounts_file' = accounts_file
        /\ \A j \in Managers \ {ret'.args[1]} : managers'[j] = managers[j]]_vars

\* manager 1 holds the "work" profile it added; manager 2, which never held
\* it, then added "home": the document is manager 2's view, without "work"
C30_Witness ==
  /\ ret.cmd = "add_profile"
  /\ ret.args = <<2, "home">>
  /\ ret.exc = None
  /\ managers[1].profiles = <<[WorkProfile EXCEPT !.imap_server = None, !.password = "pw.new"]>>
  /\ managers[2].profiles = <<HomeProfile>>
  /\ accounts_file = ViewOf(managers[2])
  /\ get_profile(accounts_file, "work") = <<>>

\* ---------------------------------------------------------------------
\* C31: after a connect that raised, the session holds no connection
\* handle (client of the IMAP session, server of the SMTP session), so the
\* next operation on it raises the not-connected error.
\* ---------------------------------------------------------------------
C31_DisconnectedAfterFailedConnect ==
  (ret.cmd = "connect" /\ ret.exc # None) => (conn.client = None /\ sender.server = None)

\* ---------------------------------------------------------------------
\* C32: whenever the IMAP slot tools.imap.imap_client._connection holds a
\* session, that session has a connection handle; this holds after every
\* command, whatever its outcome.
\* ---------------------------------------------------------------------
C32_SlotHoldsConnected ==
  imap_connection # 0 => imap_objs[imap_connection].client # None

\* ---------------------------------------------------------------------
\* C33: when a send returns, the IMAP session its sent-folder echo opened
\* (the echo's connect returned, so that it went on to list the folders)
\* has been logged out, whichever step of the echo failed.
\* ---------------------------------------------------------------------
C33_EchoDisconnects ==
  (ret.cmd \in SendMethods /\ Contains(calls, "echo:list_folders")) => Contains(calls, "echo:logout")

C38_DefaultExists ==
  /\ [](/\ \A i \in Managers : managers[i].default_profile # None => get_profile(managers[i], managers[i].default_profile) # <<>>
        /\ accounts_file.default_profile # None =>
             \E k \in 1..Len(accounts_file.profiles) : accounts_file.profiles[k].name = accounts_file.default_profile)
  /\ [][(ret'.cmd \in {"set_default", "remove_profile"} /\ get_profile(managers[ret'.args[1]], ret'.args[2]) = <<>>) =>
          /\ ret'.exc = None
          /\ ret'.val = FALSE
          /\ calls' = <<>>
          /\ managers' = managers
          /\ accounts_file' = accounts_file]_vars

\* set_default("work") on a manager that holds only "home", its default
C38_Witness ==
  /\ ret.cmd = "set_default"
  /\ ret.args = <<1, "work">>
  /\ ret.exc = None
  /\ ret.val = FALSE
  /\ managers[1].profiles = <<HomeProfile>>
  /\ managers[1].default_profile = "home"
  /\ accounts_file = ViewOf(managers[1])

\* ---------------------------------------------------------------------
\* C39: an add_profile, remove_profile or set_default whose write of the
\* document fails raises the error and leaves the manager's profiles and
\* default pointer as they were before the call.
\* ---------------------------------------------------------------------
C39_FailedSaveRollsBack ==
  [][(ret'.cmd \in {"add_profile", "remove_profile", "set_default"} /\ Contains(calls', "open") /\ ~Contains(calls', "dump")) =>
        /\ ret'.exc # None
        /\ managers' = managers]_vars

\* ---------------------------------------------------------------------
\* C35: after every call that move(uids, target) issues, whether the call
\* took effect or failed, and when move has returned or raised, each
\* message of uids that the selected mailbox held is still in that mailbox
\* or has a copy in the target; when the copy fails, move has issued no
\* other call and the account is as it was.
\* ---------------------------------------------------------------------
Exists(st, source, uid, target) == uid \in st[source].msgs \/ <<source, uid>> \in st[target].copies

C36_OnlyUidsRemoved ==
  [][ret'.cmd \in {"delete", "move"} =>
        \A uid \in store[conn.current_mailbox].msgs \ SetOf(ret'.args[1]) : uid \in store'[conn.current_mailbox].msgs]_vars

\* a command that found a session in the slot and has not finished its search
InFlight(t) == procs[t].pc \in {"select", "search"} /\ ~procs[t].auto

\* C34 as stated: when two commands run concurrently in one process, a
\* command that borrowed the session it found in the slot never has that
\* session disconnected before its own operation completes.
C34_BorrowedNeverDisconnected ==
  [][\A t \in Threads :
       (InFlight(t) /\ imap_objs[procs[t].conn].client # None) => imap_objs'[procs[t].conn].client # None]_vars

\* C34, amended: a borrowed session can be disconnected before the borrower's
\* operation completes, but only by the teardown of the command that
\* auto-connected that session; a session that no running command
\* auto-connected is never disconnected by a command's teardown.
C34_OnlyByItsOpener ==
  [][/\ \A t \in Threads :
          (InFlight(t) /\ imap_objs[procs[t].conn].client # None /\ imap_objs'[procs[t].conn].client = None)
            => \E u \in Threads \ {t} :
                 /\ procs[u].auto /\ procs[u].conn = procs[t].conn
                 /\ procs[u].pc = "teardown" /\ procs'[u].pc = "clear"
     /\ \A i \in 1..MaxIMAPObjs :
          (imap_objs[i].client # None /\ ~(\E u \in Threads : procs[u].auto /\ procs[u].conn = i))
            => imap_objs'[i].client # None]_vars

\* a borrower still in flight holds a session that its opener has torn down
C34_Witness ==
  \E t \in Threads, u \in Threads :
    /\ t # u
    /\ InFlight(t) /\ procs[t].pc = "search"
    /\ imap_objs[procs[t].conn].client = None
    /\ procs[u].auto /\ procs[u].conn = procs[t].conn /\ procs[u].pc \in {"clear", "done"}

====
